---- MODULE Spec2Model ----
(***************************************************************************)
(* Animation scheduler of AdvancedMatrixDisplay (start_animation,          *)
(* stop_animation, clear) together with the animation routines that run    *)
(* on its worker threads: scroll_text, fade_transition, create_slideshow,  *)
(* fire_effect, particle_system and the tickers' scroll routine.           *)
(*                                                                         *)
(* Every read or write of a field shared between threads (is_running,      *)
(* animation_thread, layers, a ticker's running flag) is one step, so the  *)
(* interleavings of the control thread(s) and the workers are explored.    *)
(* Thread.join(timeout=1) returns either because the thread has ended or   *)
(* because the timeout has expired while the thread is still alive.        *)
(* In the scheduler's runs a render() is recorded by `rendered`.           *)
(*                                                                         *)
(* The compositor (Layer, add_layer, remove_layer, clear, composite_layers)*)
(* is modelled on bitmaps of one row: a bitmap is a sequence of pixels, a  *)
(* pixel has a colour c, which stands for each of its bands R, G and B (the*)
(* operations treat the three alike), and an alpha a, both 0..255.  The    *)
(* Pillow operations the code calls are modelled by their 8-bit arithmetic.*)
(* An opacity is given in 256ths, so that 256 is the float 1.0.            *)
(***************************************************************************)
EXTENDS Integers, Sequences, FiniteSets, TLC

\* ---------------------------------------------------------------- bounds
MaxThreads == 2          \* routines (closures / Thread objects) ever created
MaxLayers == 2           \* scroll_text is callable while len(layers) < MaxLayers
ScrollW == 2             \* display width  (start_x of a LEFT scroll)
TextW == 1               \* width of the scrolled bitmap (end_x = -TextW)
FadeSteps == 1           \* int(duration * 30) of a fade_transition with duration >= 1/30
NumSlides == 1           \* len(content_list) of a slideshow
SlideFadeSteps == 1      \* steps of the slideshow cross-fade (30 in the code)
NumParticles == 1        \* num_particles of a particle_system with particles
DispW == 2               \* width of the display in the compositor's runs
MaxChain == 2            \* longest effect chain of a layer
MaxGlobal == 2           \* most global effects registered
PulseRes == 2            \* opacities and sine values of a pulse_effect are k / PulseRes
MaxSpeed == 3            \* largest speed of a scroll_text (whole pixels per frame)
NumFrames == 2           \* frames of the GIF that animate_gif plays
RainLimit == 2           \* matrix_rain_effect trims a list longer than this (100 in the code)
RainKeep == 1            \* layers that the trim keeps (50 in the code)
RainColumns == 1         \* columns = self.width // 8 of matrix_rain_effect
MaxFetches == 2          \* collectData() calls of main()'s refresh loop in a run
Horizon == 2             \* a feed reports arrivals up to this many minutes ahead
ListShown == 2           \* arrivals that a string lists (4 in the code)

Threads == 1..MaxThreads

\* the builders of the display engine and of the tickers
Kinds == {"scroll", "fade", "slideshow", "fire", "particles", "ticker"}

\* a run of the control surface uses one builder (the web panel starts tickers only)
Menus == {{k} : k \in Kinds}

\* control threads: 1 is the owning control surface, 2 a second caller of the display
Ctls == {1, 2}

\* the Layer objects of a compositor run: 1 is a backdrop, 2 the layer under study
LayerIds == {1, 2}

\* ColorEffect(brightness=0.5).apply and ColorEffect(brightness=2.0).apply
Effects == {"dim", "boost"}

\* Layer.blend_mode is any str (lines 58-63): the three names that composite_layers
\* tests (lines 178-183) and one that it does not
BlendModes == {"normal", "add", "multiply", "additive"}

\* Image.new("RGBA", (w, 1), (c, c, c, a))
Solid(w, c, a) == [i \in 1..w |-> [c |-> c, a |-> a]]

\* Image.new("RGBA", (self.width, self.height), (0, 0, 0, 0))
BlankCanvas == Solid(DispW, 0, 0)

\* the arguments of the Layer constructor that a run draws for layer l
LayerArgs(l) ==
  IF l = 1
  THEN [content : {Solid(DispW, 60, 255)}, x : {0}, opacity : {256},
        blend_mode : {"normal"}]
  ELSE [content : {Solid(DispW, 200, 255), Solid(1, 200, 255)}, x : {0, 1},
        opacity : {0, 128, 256}, blend_mode : BlendModes]

\* Seq(S) up to length n
SeqsUpTo(S, n) == UNION {[1..k -> S] : k \in 0..n}

\* the effect chains a run assigns: every effect at most once
Chains ==
  {ch \in SeqsUpTo(Effects, MaxChain) :
     \A i, j \in 1..Len(ch) : ch[i] = ch[j] => i = j}

VARIABLES
  is_running,        \* AdvancedMatrixDisplay.is_running
  animation_thread,  \* AdvancedMatrixDisplay.animation_thread (0 = None)
  layers,            \* AdvancedMatrixDisplay.layers, back to front
  running,           \* running[r]: the running flag of the ticker whose scroll routine is r
  current_display,   \* the ticker the control surface holds (0 = None)
  thr,               \* thr[r]: routine r and the thread that executes it
  ctl,               \* ctl[c]: position of control thread c inside its current call
  rendered,          \* the routine of animation_thread has handed a frame to matrix.SetImage
  menu,              \* the builders the control surface uses in this run
  objs,              \* objs[l]: the Layer object l (made = it has been constructed)
  canvas,            \* AdvancedMatrixDisplay.canvas
  global_effects,    \* AdvancedMatrixDisplay.global_effects, in registration order
  ret,               \* the last call made on the compositor and what it returned
  mta                \* the MTARGBMatrix of main.py and the position of main()'s loop

vars == <<is_running, animation_thread, layers, running, current_display,
          thr, ctl, rendered, menu, objs, canvas, global_effects, ret, mta>>

\* the scheduler's and the control surface's part of the state, and the legacy object
svars == <<is_running, animation_thread, running, current_display, thr, ctl,
           rendered, menu, mta>>

\* the compositor's part of the state that the scheduler leaves alone, and the legacy
\* object
cvars == <<objs, global_effects, ret, mta>>

\* Layer.opacity as the fraction num / den
One == [num |-> 1, den |-> 1]

\* chk: the routine has read its cancellation flag since its last render();
\* x: the x the routine has assigned to its layer; f: the frames it has rendered in
\* its current pass; to, from: the opacity of the layers it fades in (or pulses)
\* and of the layers it fades out; g: the parity of the slides it has built
NoRoutine == [st |-> "none", kind |-> "none", pc |-> "-", loop |-> FALSE,
              n |-> 0, i |-> 0, j |-> 0, chk |-> FALSE, x |-> 0, f |-> 0,
              to |-> One, from |-> One, g |-> 0]

IdleCtl == [pc |-> "idle", op |-> "none", r |-> 0, last |-> "none"]

\* a Layer that has not been constructed
NoLayer == [made |-> FALSE, content |-> <<>>, x |-> 0, opacity |-> 256,
            blend_mode |-> "normal", visible |-> TRUE, effects |-> <<>>]

\* no call has been made on the compositor since the last change of its inputs
NoCall == [op |-> "none", arg |-> 0, ok |-> TRUE, frame |-> <<>>, log |-> <<>>,
           had |-> FALSE]

\* MTARGBMatrix.__init__ (mta.py lines 9-14); now: the minute at which main() is;
\* found: the arrivals that the latest collectData() got from the feeds; pc: main()
\* is about to refresh or about to show the strings; shown: what the matrix shows
NoTrains == [uptown_trains |-> <<>>, downtown_trains |-> <<>>,
             uptownString |-> <<>>, downtownString |-> <<>>,
             now |-> 0, found |-> {}, pc |-> "refresh", shown |-> <<>>]

Init ==
  /\ is_running = FALSE
  /\ animation_thread = 0
  /\ layers = <<>>
  /\ running = [r \in Threads |-> FALSE]
  /\ current_display = 0
  /\ thr = [r \in Threads |-> NoRoutine]
  /\ ctl = [c \in Ctls |-> IdleCtl]
  /\ rendered = FALSE
  /\ menu \in Menus
  /\ objs = [l \in LayerIds |-> NoLayer]
  /\ canvas = BlankCanvas
  /\ global_effects = <<>>
  /\ ret = NoCall
  /\ mta = NoTrains

\* ---------------------------------------------------------------- helpers
Live(t) == thr[t].st = "live"

LiveThreads == {t \in Threads : Live(t)}

\* Thread.is_alive(): started and not yet ended
Ended(t) == thr[t].st \in {"done", "raised"}

Allocated == {r \in Threads : thr[r].st # "none"}

\* the id of the next closure a builder creates
NextId == Cardinality(Allocated) + 1

CanAllocate == Cardinality(Allocated) < MaxThreads

Routine(kind, pc, loop, n) ==
  [NoRoutine EXCEPT !.st = "routine", !.kind = kind, !.pc = pc, !.loop = loop, !.n = n]

\* the runs of one routine on its own keep track of the attributes the routine gives
\* to its layers (x, opacity) and of its frames; the scheduler's runs do not
Observed == "observed" \in menu

\* the record of a routine as the run keeps it
Seen(r) ==
  IF Observed THEN r
  ELSE [r EXCEPT !.x = 0, !.f = 0, !.to = One, !.from = One, !.g = 0]

\* render(): composite_layers() and matrix.SetImage()
Render(t) == rendered' = (rendered \/ t = animation_thread)

\* the positions at which a routine calls render()
RenderPcs == {"render", "f_render", "pu_render", "s_fade", "s_render", "fire_render",
              "p_render", "t_render", "g_render", "r_render"}

\* thread t performs a render() in this step and the call returns
Renders(t) ==
  /\ Live(t) /\ thr[t].pc \in RenderPcs
  /\ thr'[t] # thr[t] /\ thr'[t].st = "live"

\* animation_func returns and the thread ends; how = "completed" when a loop=False
\* routine has run its single pass to the end, "exhausted" when a for loop has run
\* out, "returned" when the routine has left a loop on the flag
Return(t, how) == thr' = [thr EXCEPT ![t] = [NoRoutine EXCEPT !.st = "done", !.pc = how]]

\* animation_func raises: nothing catches it, the thread ends with the exception
Raise(t) == thr' = [thr EXCEPT ![t] = [NoRoutine EXCEPT !.st = "raised"]]

\* render(), line 195: matrix.SetImage raises; neither render() nor the routine nor
\* the thread's target catches it, so the exception ends the routine's thread
SinkFails(t) ==
  /\ thr' = [thr EXCEPT ![t] = [NoRoutine EXCEPT !.st = "raised", !.pc = "sink"]]
  /\ UNCHANGED rendered

Goto(t, pc) == thr' = [thr EXCEPT ![t].pc = pc]

\* the routine has read its cancellation flag as True and goes on
Checked(t, pc) == thr' = [thr EXCEPT ![t].pc = pc, ![t].chk = TRUE]

\* ---------------------------------------------------------------- control thread: builders
\* a builder creates the closure animation_func and calls start_animation(animation_func)
Submit(c, routine) ==
  /\ ctl[c].pc = "idle"
  /\ CanAllocate
  /\ routine.kind \in menu
  /\ thr' = [thr EXCEPT ![NextId] = routine]
  /\ ctl' = [ctl EXCEPT ![c] = [pc |-> "stop_flag", op |-> "start", r |-> NextId,
                                last |-> ctl[c].last]]

\* scroll_text(text, speed=speed, loop=loop); n: speed, the pixels per frame
ScrollTextAt(c, speed, loop) ==
  /\ Len(layers) < MaxLayers
  /\ Submit(c, Routine("scroll", "outer", loop, speed))
  /\ layers' = Append(layers, NextId)
  /\ UNCHANGED <<is_running, animation_thread, running, current_display, rendered, menu, canvas, cvars>>

\* scroll_text with the default speed 1.0
ScrollText(c) == \E loop \in BOOLEAN : ScrollTextAt(c, 1, loop)

\* scroll_text with a speed of its caller's choice
ScrollTextAnySpeed(c) ==
  \E loop \in BOOLEAN, speed \in 1..MaxSpeed : ScrollTextAt(c, speed, loop)

\* the durations of a fade_transition, in 60ths of a second: 0.0, 1/60 and the
\* duration of FadeSteps steps
Durations == {0, 1, 2 * FadeSteps}

\* line 334: steps = int(duration * 30), the duration in 60ths of a second
StepsOf(duration) == (duration * 30) \div 60

\* n: steps; j: duration
FadeTransition(c) ==
  \E duration \in Durations :
    /\ Submit(c, [Routine("fade", "f_set", FALSE, StepsOf(duration))
                    EXCEPT !.j = duration])
    /\ UNCHANGED <<is_running, animation_thread, layers, running, current_display,
                   rendered, menu, canvas, cvars>>

\* n: min_opacity, j: max_opacity, in units of 1 / PulseRes, with
\* 0 <= min_opacity <= max_opacity <= 1
PulseEffect(c) ==
  \E lo \in 0..PulseRes, hi \in 0..PulseRes :
    /\ lo <= hi
    /\ Submit(c, [Routine("pulse", "pu_top", TRUE, lo) EXCEPT !.j = hi])
    /\ UNCHANGED <<is_running, animation_thread, layers, running, current_display,
                   rendered, menu, canvas, cvars>>

\* animate_gif(gif_path, loop=loop); n: len(frames)
AnimateGif(c) ==
  \E loop \in BOOLEAN :
    /\ Submit(c, Routine("gif", "g_outer", loop, NumFrames))
    /\ UNCHANGED <<is_running, animation_thread, layers, running, current_display,
                   rendered, menu, canvas, cvars>>

\* matrix_rain_effect(); n: columns
MatrixRainEffect(c) ==
  /\ Submit(c, Routine("rain", "r_font", TRUE, RainColumns))
  /\ UNCHANGED <<is_running, animation_thread, layers, running, current_display,
                 rendered, menu, canvas, cvars>>

CreateSlideshow(c) ==
  /\ Submit(c, Routine("slideshow", "s_outer", TRUE, NumSlides))
  /\ UNCHANGED <<is_running, animation_thread, layers, running, current_display,
                 rendered, menu, canvas, cvars>>

FireEffect(c) ==
  /\ Submit(c, Routine("fire", "fire_top", TRUE, 0))
  /\ UNCHANGED <<is_running, animation_thread, layers, running, current_display,
                 rendered, menu, canvas, cvars>>

ParticleSystem(c) ==
  \E n \in {0, NumParticles} :
    /\ Submit(c, Routine("particles", "p_init", TRUE, n))
    /\ UNCHANGED <<is_running, animation_thread, layers, running, current_display,
                   rendered, menu, canvas, cvars>>

\* the control surface, which has stopped the ticker it held, creates a ticker;
\* ticker.start() sets running and submits the ticker's scroll routine
TickerStart(c) ==
  /\ current_display = 0
  /\ Submit(c, Routine("ticker", "t_top", TRUE, 0))
  /\ running' = [running EXCEPT ![NextId] = TRUE]
  /\ current_display' = NextId
  /\ UNCHANGED <<is_running, animation_thread, layers, rendered, menu, canvas, cvars>>

StopAnimation(c) ==
  /\ ctl[c].pc = "idle"
  /\ ctl' = [ctl EXCEPT ![c] = [pc |-> "stop_flag", op |-> "stop", r |-> 0,
                                last |-> ctl[c].last]]
  /\ UNCHANGED <<is_running, animation_thread, layers, running, current_display,
                 thr, rendered, menu, canvas, cvars>>

\* ticker.stop(): running = False, then display.stop_animation(), then display.clear()
TickerStop(c) ==
  /\ ctl[c].pc = "idle"
  /\ current_display # 0
  /\ running' = [running EXCEPT ![current_display] = FALSE]
  /\ ctl' = [ctl EXCEPT ![c] = [pc |-> "stop_flag", op |-> "tstop", r |-> 0,
                                last |-> ctl[c].last]]
  /\ UNCHANGED <<is_running, animation_thread, layers, current_display,
                 thr, rendered, menu, canvas, cvars>>

\* display.clear() called by the control thread
Clear(c) ==
  /\ ctl[c].pc = "idle"
  /\ canvas' = BlankCanvas
  /\ layers' = <<>>
  /\ ctl' = [ctl EXCEPT ![c].last =
               IF ctl[c].last \in {"stop", "stopclear"} THEN "stopclear" ELSE "none"]
  /\ UNCHANGED <<is_running, animation_thread, running, current_display,
                 thr, rendered, menu, cvars>>

\* ---------------------------------------------------------------- start_animation / stop_animation
\* a stop_animation that signals only a worker that is alive
StopFlagValueIfAlive(cur, alive) == IF alive THEN FALSE ELSE cur

\* stop_animation, line 576: the value written to is_running
StopFlagValue(cur, alive) == FALSE

StopFlag(c) ==
  /\ ctl[c].pc = "stop_flag"
  /\ is_running' = StopFlagValue(is_running,
                                 animation_thread # 0 /\ Live(animation_thread))
  /\ ctl' = [ctl EXCEPT ![c].pc = "stop_join"]
  /\ UNCHANGED <<animation_thread, layers, running, current_display, thr, rendered, menu, canvas, cvars>>

\* where the caller of stop_animation continues
AfterStop(c) ==
  CASE ctl[c].op = "start" -> [ctl[c] EXCEPT !.pc = "set_flag"]
    [] ctl[c].op = "tstop" -> [ctl[c] EXCEPT !.pc = "clear"]
    [] OTHER               -> [IdleCtl EXCEPT !.last = "stop"]

\* stop_animation, lines 577-578: if self.animation_thread: join(timeout=1)
StopJoin(c) ==
  /\ ctl[c].pc = "stop_join"
  /\ LET t == animation_thread IN
       IF t = 0 \/ (t # 0 /\ Ended(t))
       THEN ctl' = [ctl EXCEPT ![c] = AfterStop(c)]
       ELSE IF Live(t)
       THEN \* the timeout expires while the worker is alive
            ctl' = [ctl EXCEPT ![c] = AfterStop(c)]
       ELSE \* Thread created but not started: join raises RuntimeError
            ctl' = [ctl EXCEPT ![c] = IdleCtl]
  /\ UNCHANGED <<is_running, animation_thread, layers, running, current_display, thr,
                 rendered, menu, canvas, cvars>>

\* start_animation, line 569
SetFlag(c) ==
  /\ ctl[c].pc = "set_flag"
  /\ is_running' = TRUE
  /\ ctl' = [ctl EXCEPT ![c].pc = "new_thread"]
  /\ UNCHANGED <<animation_thread, layers, running, current_display, thr, rendered, menu, canvas, cvars>>

\* start_animation, lines 570-571
NewThread(c) ==
  /\ ctl[c].pc = "new_thread"
  /\ animation_thread' = ctl[c].r
  /\ thr' = [thr EXCEPT ![ctl[c].r].st = "created"]
  /\ rendered' = FALSE
  /\ ctl' = [ctl EXCEPT ![c].pc = "start_thread"]
  /\ UNCHANGED <<is_running, layers, running, current_display, menu, canvas, cvars>>

\* start_animation, line 572
StartThread(c) ==
  /\ ctl[c].pc = "start_thread"
  /\ thr' = [thr EXCEPT ![ctl[c].r].st = "live"]
  /\ ctl' = [ctl EXCEPT ![c] = [IdleCtl EXCEPT !.last = "start"]]
  /\ UNCHANGED <<is_running, animation_thread, layers, running, current_display,
                 rendered, menu, canvas, cvars>>

\* the display.clear() that ends ticker.stop(); the control surface then drops the ticker
StopClear(c) ==
  /\ ctl[c].pc = "clear"
  /\ canvas' = BlankCanvas
  /\ layers' = <<>>
  /\ current_display' = 0
  /\ ctl' = [ctl EXCEPT ![c] = [IdleCtl EXCEPT !.last = "stopclear"]]
  /\ UNCHANGED <<is_running, animation_thread, running, thr, rendered, menu, cvars>>

\* ---------------------------------------------------------------- scroll_text.animation_func (LEFT)
\* line 309: while self.is_running; line 311: x = start_x
ScrollOuter(t) ==
  /\ Live(t) /\ thr[t].pc = "outer"
  /\ IF is_running
     THEN thr' = [thr EXCEPT ![t] = Seen([thr[t] EXCEPT !.pc = "inner", !.i = ScrollW,
                                                         !.f = 0, !.chk = TRUE])]
     ELSE Return(t, "returned")
  /\ UNCHANGED <<is_running, animation_thread, layers, running, current_display,
                 ctl, rendered, menu, canvas, cvars>>

\* line 312: while x > end_x and self.is_running; line 313: text_layer.x = int(x);
\* when the inner loop ends, lines 325-326: if not loop: break
ScrollInner(t) ==
  /\ Live(t) /\ thr[t].pc = "inner"
  /\ IF thr[t].i > -TextW /\ is_running
     THEN thr' = [thr EXCEPT ![t] = Seen([thr[t] EXCEPT !.pc = "render", !.x = thr[t].i,
                                                         !.chk = TRUE])]
     ELSE IF thr[t].loop THEN Goto(t, "outer")
     ELSE Return(t, IF thr[t].i > -TextW THEN "returned" ELSE "completed")
  /\ UNCHANGED <<is_running, animation_thread, layers, running, current_display,
                 ctl, rendered, menu, canvas, cvars>>

\* a scroll that moves one pixel per frame whatever its speed
ScrollStepOne(x, speed) == x - 1

\* lines 294 and 315: step = -speed; x += step
ScrollStep(x, speed) == x - speed

\* lines 314-316: self.render(); x += step; sleep
ScrollRender(t) ==
  /\ Live(t) /\ thr[t].pc = "render"
  /\ \/ /\ Render(t)
        /\ thr' = [thr EXCEPT ![t] = Seen([thr[t] EXCEPT
                      !.pc = "inner", !.i = ScrollStep(thr[t].i, thr[t].n),
                      !.f = thr[t].f + 1, !.chk = FALSE])]
     \/ SinkFails(t)
  /\ UNCHANGED <<is_running, animation_thread, layers, running, current_display,
                 ctl, menu, canvas, cvars>>

\* ---------------------------------------------------------------- fade_transition.animation_func
\* an alpha that runs one step ahead
FadeAlphaAhead(i, steps) == [num |-> i + 1, den |-> steps]

\* lines 336 and 616: alpha = i / steps
FadeAlpha(i, steps) == [num |-> i, den |-> steps]

\* lines 340 and 618: 1.0 - alpha
Complement(alpha) == [num |-> alpha.den - alpha.num, den |-> alpha.den]

\* lines 334-344: steps = int(duration * 30); for i in range(steps + 1):
\* alpha = i / steps; set the opacities
FadeSet(t) ==
  /\ Live(t) /\ thr[t].pc = "f_set"
  /\ IF thr[t].i > thr[t].n THEN Return(t, "exhausted")
     ELSE IF thr[t].n = 0 THEN Raise(t)       \* ZeroDivisionError
     ELSE thr' = [thr EXCEPT ![t] = Seen([thr[t] EXCEPT
                    !.pc = "f_render",
                    !.from = Complement(FadeAlpha(thr[t].i, thr[t].n)),
                    !.to = FadeAlpha(thr[t].i, thr[t].n)])]
  /\ UNCHANGED <<is_running, animation_thread, layers, running, current_display,
                 ctl, rendered, menu, canvas, cvars>>

\* lines 346-347: self.render(); sleep
FadeRender(t) ==
  /\ Live(t) /\ thr[t].pc = "f_render"
  /\ \/ /\ Render(t)
        /\ thr' = [thr EXCEPT ![t].pc = "f_check", ![t].chk = FALSE]
     \/ SinkFails(t)
  /\ UNCHANGED <<is_running, animation_thread, layers, running, current_display,
                 ctl, menu, canvas, cvars>>

\* lines 349-350: if not self.is_running: break
FadeCheck(t) ==
  /\ Live(t) /\ thr[t].pc = "f_check"
  /\ IF is_running
     THEN thr' = [thr EXCEPT ![t].pc = "f_set", ![t].i = thr[t].i + 1, ![t].chk = TRUE]
     ELSE Return(t, "returned")
  /\ UNCHANGED <<is_running, animation_thread, layers, running, current_display,
                 ctl, rendered, menu, canvas, cvars>>

\* ---------------------------------------------------------------- pulse_effect.animation_func
\* line 407: while self.is_running
PulseTop(t) ==
  /\ Live(t) /\ thr[t].pc = "pu_top"
  /\ IF is_running THEN Checked(t, "pu_set") ELSE Return(t, "returned")
  /\ UNCHANGED <<is_running, animation_thread, layers, running, current_display,
                 ctl, rendered, menu, canvas, cvars>>

\* lines 409-410: min_opacity + (max_opacity - min_opacity) * (sin(t * speed) + 1) / 2,
\* with (sin(t * speed) + 1) / 2 = k / PulseRes
PulseOpacity(lo, hi, k) ==
  [num |-> lo * PulseRes + (hi - lo) * k, den |-> PulseRes * PulseRes]

\* line 411: layer.opacity = opacity; the sine takes any value in [-1, 1]
PulseSet(t) ==
  /\ Live(t) /\ thr[t].pc = "pu_set"
  /\ \E k \in 0..PulseRes :
       thr' = [thr EXCEPT ![t].pc = "pu_render",
                          ![t].to = PulseOpacity(thr[t].n, thr[t].j, k)]
  /\ UNCHANGED <<is_running, animation_thread, layers, running, current_display,
                 ctl, rendered, menu, canvas, cvars>>

\* lines 412-414: self.render(); t += 0.1; sleep
PulseRender(t) ==
  /\ Live(t) /\ thr[t].pc = "pu_render"
  /\ \/ /\ Render(t)
        /\ thr' = [thr EXCEPT ![t].pc = "pu_top", ![t].chk = FALSE]
     \/ SinkFails(t)
  /\ UNCHANGED <<is_running, animation_thread, layers, running, current_display,
                 ctl, menu, canvas, cvars>>

\* ---------------------------------------------------------------- create_slideshow.animation_func
\* the Layer that slideshow routine t builds for a slide of parity g
SlideLayer(t, g) == t + MaxThreads * (g + 1)

\* a slideshow that keeps the faded-out layers in the list
AssignedBoth(old, new) == old \o new

\* line 623: self.layers = new_layers
Assigned(old, new) == new

\* line 585: while self.is_running; line 586: for content in content_list
SlideOuter(t) ==
  /\ Live(t) /\ thr[t].pc = "s_outer"
  /\ IF is_running
     THEN thr' = [thr EXCEPT ![t].pc = "s_for", ![t].i = 0, ![t].chk = TRUE]
     ELSE Return(t, "returned")
  /\ UNCHANGED <<is_running, animation_thread, layers, running, current_display,
                 ctl, rendered, menu, canvas, cvars>>

\* lines 586-588: the next content, or break when not self.is_running
SlideFor(t) ==
  /\ Live(t) /\ thr[t].pc = "s_for"
  /\ IF thr[t].i >= thr[t].n \/ ~is_running
     THEN Goto(t, "s_outer")
     ELSE Checked(t, "s_build")
  /\ UNCHANGED <<is_running, animation_thread, layers, running, current_display,
                 ctl, rendered, menu, canvas, cvars>>

\* lines 590-610: old_layers = copy; clear(); add the slide's layer; new_layers = copy;
\* with old layers: self.layers = old_layers + new_layers
\* the new layers get the constructor's opacity 1.0 and, with old layers, opacity 0
\* (line 612); the old layers are left as they are until the fade
SlideBuild(t) ==
  /\ Live(t) /\ thr[t].pc = "s_build"
  /\ canvas' = BlankCanvas
  /\ LET g == Seen([thr[t] EXCEPT !.g = 1 - thr[t].g]).g IN
     IF layers # <<>>
     THEN /\ layers' = Append(layers, SlideLayer(t, g))
          /\ thr' = [thr EXCEPT ![t] = Seen([thr[t] EXCEPT
                         !.pc = "s_fade", !.j = 0, !.g = g,
                         !.from = thr[t].to, !.to = FadeAlpha(0, 1)])]
     ELSE /\ layers' = <<SlideLayer(t, g)>>
          /\ thr' = [thr EXCEPT ![t] = Seen([thr[t] EXCEPT
                         !.pc = "s_render", !.g = g, !.to = One])]
  /\ UNCHANGED <<is_running, animation_thread, running, current_display,
                 ctl, rendered, menu, cvars>>

\* lines 614-621: for i in range(steps + 1): set the opacities; render(); sleep
SlideFade(t) ==
  /\ Live(t) /\ thr[t].pc = "s_fade"
  /\ \/ /\ Render(t)
        /\ thr' = [thr EXCEPT ![t] = Seen([thr[t] EXCEPT
                      !.j = IF thr[t].j + 1 > SlideFadeSteps THEN 0 ELSE thr[t].j + 1,
                      !.pc = IF thr[t].j + 1 > SlideFadeSteps THEN "s_assign" ELSE "s_fade",
                      !.from = Complement(FadeAlpha(thr[t].j, SlideFadeSteps)),
                      !.to = FadeAlpha(thr[t].j, SlideFadeSteps),
                      !.chk = FALSE])]
     \/ SinkFails(t)
  /\ UNCHANGED <<is_running, animation_thread, layers, running, current_display,
                 ctl, menu, canvas, cvars>>

\* line 623: self.layers = new_layers; line 627: time.sleep(duration_per_slide)
SlideAssign(t) ==
  /\ Live(t) /\ thr[t].pc = "s_assign"
  /\ layers' = Assigned(SubSeq(layers, 1, Len(layers) - 1), <<SlideLayer(t, thr[t].g)>>)
  /\ thr' = [thr EXCEPT ![t].pc = "s_for", ![t].i = thr[t].i + 1]
  /\ UNCHANGED <<is_running, animation_thread, running, current_display,
                 ctl, rendered, menu, canvas, cvars>>

\* line 625: self.render() when there is nothing to fade from; line 627: sleep
SlideRender(t) ==
  /\ Live(t) /\ thr[t].pc = "s_render"
  /\ \/ /\ Render(t)
        /\ thr' = [thr EXCEPT ![t].pc = "s_for", ![t].i = thr[t].i + 1, ![t].chk = FALSE]
     \/ SinkFails(t)
  /\ UNCHANGED <<is_running, animation_thread, layers, running, current_display,
                 ctl, menu, canvas, cvars>>

\* ---------------------------------------------------------------- animate_gif.animation_func
\* a clear() that leaves the layer list as it is
KeptList(ls) == ls

\* clear(), line 146: self.layers.clear()
Emptied(ls) == <<>>

\* line 369: while self.is_running; line 370: for frame in frames
GifOuter(t) ==
  /\ Live(t) /\ thr[t].pc = "g_outer"
  /\ IF is_running
     THEN thr' = [thr EXCEPT ![t].pc = "g_for", ![t].i = 0, ![t].chk = TRUE]
     ELSE Return(t, "returned")
  /\ UNCHANGED <<is_running, animation_thread, layers, running, current_display,
                 ctl, rendered, menu, canvas, cvars>>

\* lines 370-372: the next frame, or break when not self.is_running; when the for
\* loop ends, lines 384-385: if not loop: break
GifFor(t) ==
  /\ Live(t) /\ thr[t].pc = "g_for"
  /\ IF thr[t].i < thr[t].n /\ is_running THEN Checked(t, "g_clear")
     ELSE IF thr[t].loop THEN Goto(t, "g_outer")
     ELSE Return(t, IF thr[t].i < thr[t].n THEN "returned" ELSE "completed")
  /\ UNCHANGED <<is_running, animation_thread, layers, running, current_display,
                 ctl, rendered, menu, canvas, cvars>>

\* line 375: self.clear()
GifClear(t) ==
  /\ Live(t) /\ thr[t].pc = "g_clear"
  /\ canvas' = BlankCanvas
  /\ layers' = Emptied(layers)
  /\ Goto(t, "g_add")
  /\ UNCHANGED <<is_running, animation_thread, running, current_display,
                 ctl, rendered, menu, cvars>>

\* lines 376-377: self.add_layer(Layer(frame, x, y))
GifAdd(t) ==
  /\ Live(t) /\ thr[t].pc = "g_add"
  /\ layers' = Append(layers, t)
  /\ Goto(t, "g_render")
  /\ UNCHANGED <<is_running, animation_thread, running, current_display,
                 ctl, rendered, menu, canvas, cvars>>

\* lines 378-382: self.render(); sleep for the frame's duration
GifRender(t) ==
  /\ Live(t) /\ thr[t].pc = "g_render"
  /\ \/ /\ Render(t)
        /\ thr' = [thr EXCEPT ![t].pc = "g_for", ![t].i = thr[t].i + 1, ![t].chk = FALSE]
     \/ SinkFails(t)
  /\ UNCHANGED <<is_running, animation_thread, layers, running, current_display,
                 ctl, menu, canvas, cvars>>

\* ---------------------------------------------------------------- matrix_rain_effect.animation_func
\* the Layer of a character that rain routine t adds; its overlays are layer t
RainChar(t) == t + MaxThreads

\* a clean-up that starts one layer later
NeedsTrimLate(ls) == Len(ls) > RainLimit + 1

\* line 455: if len(self.layers) > 100
NeedsTrim(ls) == Len(ls) > RainLimit

\* line 456: self.layers[-50:]
Trimmed(ls) == SubSeq(ls, Len(ls) - RainKeep + 1, Len(ls))

\* line 425: get_font(...): ImageFont.truetype raises OSError when the font file is
\* not on the system
RainFont(t) ==
  /\ Live(t) /\ thr[t].pc = "r_font"
  /\ Goto(t, "r_top") \/ Raise(t)
  /\ UNCHANGED <<is_running, animation_thread, layers, running, current_display,
                 ctl, rendered, menu, canvas, cvars>>

\* line 427: while self.is_running
RainTop(t) ==
  /\ Live(t) /\ thr[t].pc = "r_top"
  /\ IF is_running THEN Checked(t, "r_overlay") ELSE Return(t, "returned")
  /\ UNCHANGED <<is_running, animation_thread, layers, running, current_display,
                 ctl, rendered, menu, canvas, cvars>>

\* lines 429-431: self.add_layer(Layer(overlay)); line 433: for i in range(columns)
RainOverlay(t) ==
  /\ Live(t) /\ thr[t].pc = "r_overlay"
  /\ layers' = Append(layers, t)
  /\ thr' = [thr EXCEPT ![t].pc = "r_column", ![t].i = 0]
  /\ UNCHANGED <<is_running, animation_thread, running, current_display,
                 ctl, rendered, menu, canvas, cvars>>

\* lines 433-447: column i adds a character layer when y < self.height and
\* np.random.random() > 0.95, and advances its drop
RainColumn(t) ==
  /\ Live(t) /\ thr[t].pc = "r_column"
  /\ IF thr[t].i < thr[t].n
     THEN /\ thr' = [thr EXCEPT ![t].i = thr[t].i + 1]
          /\ \E drawn \in BOOLEAN :
               layers' = IF drawn THEN Append(layers, RainChar(t)) ELSE layers
     ELSE Goto(t, "r_render") /\ UNCHANGED layers
  /\ UNCHANGED <<is_running, animation_thread, running, current_display,
                 ctl, rendered, menu, canvas, cvars>>

\* lines 449-450: self.render(); sleep
RainRender(t) ==
  /\ Live(t) /\ thr[t].pc = "r_render"
  /\ \/ /\ Render(t)
        /\ thr' = [thr EXCEPT ![t].pc = "r_trim", ![t].chk = FALSE]
     \/ SinkFails(t)
  /\ UNCHANGED <<is_running, animation_thread, layers, running, current_display,
                 ctl, menu, canvas, cvars>>

\* lines 453-456: if len(self.layers) > 100: self.layers = self.layers[-50:]
RainTrim(t) ==
  /\ Live(t) /\ thr[t].pc = "r_trim"
  /\ layers' = IF NeedsTrim(layers) THEN Trimmed(layers) ELSE layers
  /\ Goto(t, "r_top")
  /\ UNCHANGED <<is_running, animation_thread, running, current_display,
                 ctl, rendered, menu, canvas, cvars>>

\* ---------------------------------------------------------------- fire_effect.animation_func
\* line 467: while self.is_running; lines 469-494: the heat map and the image
FireTop(t) ==
  /\ Live(t) /\ thr[t].pc = "fire_top"
  /\ IF is_running THEN Checked(t, "fire_clear") ELSE Return(t, "returned")
  /\ UNCHANGED <<is_running, animation_thread, layers, running, current_display,
                 ctl, rendered, menu, canvas, cvars>>

\* line 496: self.clear()
FireClear(t) ==
  /\ Live(t) /\ thr[t].pc = "fire_clear"
  /\ canvas' = BlankCanvas
  /\ layers' = Emptied(layers)
  /\ Goto(t, "fire_add")
  /\ UNCHANGED <<is_running, animation_thread, running, current_display,
                 ctl, rendered, menu, cvars>>

\* line 497: self.add_layer(Layer(img))
FireAdd(t) ==
  /\ Live(t) /\ thr[t].pc = "fire_add"
  /\ layers' = Append(layers, t)
  /\ Goto(t, "fire_render")
  /\ UNCHANGED <<is_running, animation_thread, running, current_display,
                 ctl, rendered, menu, canvas, cvars>>

\* lines 498-499: self.render(); sleep.  The layers of a fire run hold the "RGB"
\* image of line 481: composite_layers pastes it with itself as the mask (line 179)
\* and Image.paste accepts no "RGB" mask (ValueError: bad transparency mask), so
\* render() raises before SetImage unless the list has been emptied meanwhile
FireRender(t) ==
  /\ Live(t) /\ thr[t].pc = "fire_render"
  /\ IF layers # <<>>
     THEN Raise(t) /\ UNCHANGED rendered
     ELSE \/ Render(t) /\ thr' = [thr EXCEPT ![t].pc = "fire_top", ![t].chk = FALSE]
          \/ SinkFails(t)
  /\ UNCHANGED <<is_running, animation_thread, layers, running, current_display,
                 ctl, menu, canvas, cvars>>

\* ---------------------------------------------------------------- particle_system.animation_func
\* line 536: particles = [Particle() for _ in range(num_particles)]; Particle.__init__
\* (line 509) reads self.width of the Particle, which has no such attribute
ParticleInit(t) ==
  /\ Live(t) /\ thr[t].pc = "p_init"
  /\ IF thr[t].n > 0 THEN Raise(t)           \* AttributeError
     ELSE Goto(t, "p_top")
  /\ UNCHANGED <<is_running, animation_thread, layers, running, current_display,
                 ctl, rendered, menu, canvas, cvars>>

\* line 538: while self.is_running; lines 539-557: the image of the frame
ParticleTop(t) ==
  /\ Live(t) /\ thr[t].pc = "p_top"
  /\ IF is_running THEN Checked(t, "p_clear") ELSE Return(t, "returned")
  /\ UNCHANGED <<is_running, animation_thread, layers, running, current_display,
                 ctl, rendered, menu, canvas, cvars>>

\* line 559: self.clear()
ParticleClear(t) ==
  /\ Live(t) /\ thr[t].pc = "p_clear"
  /\ canvas' = BlankCanvas
  /\ layers' = Emptied(layers)
  /\ Goto(t, "p_add")
  /\ UNCHANGED <<is_running, animation_thread, running, current_display,
                 ctl, rendered, menu, cvars>>

\* line 560: self.add_layer(Layer(img))
ParticleAdd(t) ==
  /\ Live(t) /\ thr[t].pc = "p_add"
  /\ layers' = Append(layers, t)
  /\ Goto(t, "p_render")
  /\ UNCHANGED <<is_running, animation_thread, running, current_display,
                 ctl, rendered, menu, canvas, cvars>>

\* lines 561-562: self.render(); sleep
ParticleRender(t) ==
  /\ Live(t) /\ thr[t].pc = "p_render"
  /\ \/ /\ Render(t)
        /\ thr' = [thr EXCEPT ![t].pc = "p_top", ![t].chk = FALSE]
     \/ SinkFails(t)
  /\ UNCHANGED <<is_running, animation_thread, layers, running, current_display,
                 ctl, menu, canvas, cvars>>

\* ---------------------------------------------------------------- the tickers' scroll routine
\* news_ticker.py line 510: while self.running; line 511: create_ticker_image()
TickTop(t) ==
  /\ Live(t) /\ thr[t].pc = "t_top"
  /\ IF running[t] THEN Checked(t, "t_clear") ELSE Return(t, "returned")
  /\ UNCHANGED <<is_running, animation_thread, layers, running, current_display,
                 ctl, rendered, menu, canvas, cvars>>

\* line 514: self.display.clear()
TickClear(t) ==
  /\ Live(t) /\ thr[t].pc = "t_clear"
  /\ canvas' = BlankCanvas
  /\ layers' = <<>>
  /\ Goto(t, "t_add")
  /\ UNCHANGED <<is_running, animation_thread, running, current_display,
                 ctl, rendered, menu, cvars>>

\* line 515: self.display.add_layer(layer); line 518: x = self.display.width
TickAdd(t) ==
  /\ Live(t) /\ thr[t].pc = "t_add"
  /\ layers' = Append(layers, t)
  /\ thr' = [thr EXCEPT ![t].pc = "t_inner", ![t].i = ScrollW]
  /\ UNCHANGED <<is_running, animation_thread, running, current_display,
                 ctl, rendered, menu, canvas, cvars>>

\* line 519: while x > -ticker_img.width and self.running; line 520: layer.x = int(x);
\* when the loop ends, line 525: time.sleep(0.5)
TickInner(t) ==
  /\ Live(t) /\ thr[t].pc = "t_inner"
  /\ IF thr[t].i > -TextW /\ running[t]
     THEN Checked(t, "t_render")
     ELSE thr' = [thr EXCEPT ![t].pc = "t_top", ![t].i = 0]
  /\ UNCHANGED <<is_running, animation_thread, layers, running, current_display,
                 ctl, rendered, menu, canvas, cvars>>

\* lines 521-523: render(); x -= scroll_speed (one unit per frame here); sleep
TickRender(t) ==
  /\ Live(t) /\ thr[t].pc = "t_render"
  /\ \/ /\ Render(t)
        /\ thr' = [thr EXCEPT ![t].pc = "t_inner", ![t].i = thr[t].i - 1, ![t].chk = FALSE]
     \/ SinkFails(t)
  /\ UNCHANGED <<is_running, animation_thread, layers, running, current_display,
                 ctl, menu, canvas, cvars>>

\* ---------------------------------------------------------------- Pillow arithmetic
\* DIV255 of ImagingUtils.h: a / 255 rounded, on integers
Div255(a) == LET tmp == a + 128 IN ((tmp \div 256) + tmp) \div 256

\* BLEND(mask, in1, in2) of Paste.c
BlendBand(mask, in1, in2) == Div255(in1 * (255 - mask) + in2 * mask)

\* round(), to the even neighbour at a tie, of n / d
RoundHalfEven(n, d) ==
  LET q == n \div d
      r == n % d
  IN IF 2 * r > d \/ (2 * r = d /\ q % 2 = 1) THEN q + 1 ELSE q

\* alpha.point(lambda p: p * layer.opacity), line 174: the table is rounded to integers
ScaleAlpha(img, opacity) ==
  [i \in 1..Len(img) |-> [img[i] EXCEPT !.a = RoundHalfEven(img[i].a * opacity, 256)]]

\* one pixel of Image.paste(src, box, mask=src) on "RGBA" images (paste_mask_RGBA): the
\* alpha band is blended with the mask like the colour bands; the colour bands of a
\* fully transparent destination pixel take the source colour
PastePixel(dst, src) ==
  LET m == src.a
      cm == IF m # 0 /\ dst.a = 0 THEN 255 ELSE m
  IN [c |-> BlendBand(cm, dst.c, src.c), a |-> BlendBand(m, dst.a, src.a)]

\* result.paste(layer_img, (x, 0), layer_img): the part outside the canvas is clipped
Paste(result, img, x) ==
  [i \in 1..Len(result) |->
     IF i - x \in 1..Len(img) THEN PastePixel(result[i], img[i - x]) ELSE result[i]]

\* Image.blend(im1, im2, alpha) on images of one size: a copy of im1 for alpha 0.0, of
\* im2 for 1.0, else every band is in1 + alpha * (in2 - in1) cut to an integer
ImageBlend(im1, im2, opacity) ==
  [i \in 1..Len(im1) |->
     [c |-> (im1[i].c * 256 + opacity * (im2[i].c - im1[i].c)) \div 256,
      a |-> (im1[i].a * 256 + opacity * (im2[i].a - im1[i].a)) \div 256]]

\* ColorEffect.apply on a grey pixel: hue and saturation stay 0, v = min(1.0, v *
\* brightness), the band is int(v * 255); the alpha band is left alone
EffectPixel(e, px) ==
  [px EXCEPT !.c = IF e = "dim" THEN px.c \div 2
                   ELSE IF 2 * px.c > 255 THEN 255 ELSE 2 * px.c]

ApplyEffect(e, img) == [i \in 1..Len(img) |-> EffectPixel(e, img[i])]

\* ---------------------------------------------------------------- Layer
\* Layer.__init__
Layer(args) ==
  [made |-> TRUE, content |-> args.content, x |-> args.x, opacity |-> args.opacity,
   blend_mode |-> args.blend_mode, visible |-> TRUE, effects |-> <<>>]

RECURSIVE ApplyChain(_, _, _)
\* lines 72-73: for effect in self.effects: result = effect(result)
ApplyChain(effects, i, result) ==
  IF i > Len(effects) THEN result
  ELSE ApplyChain(effects, i + 1, ApplyEffect(effects[i], result))

\* an apply_effects that runs the chain from its last effect to its first
ApplyEffectsReversed(layer) ==
  ApplyChain([i \in 1..Len(layer.effects) |->
                layer.effects[Len(layer.effects) + 1 - i]], 1, layer.content)

\* Layer.apply_effects: result = self.content.copy(), then the chain, front to back
ApplyEffectsOf(layer) == ApplyChain(layer.effects, 1, layer.content)

\* ---------------------------------------------------------------- the compositor's calls
\* a call that returns None
Called(op, arg, had) == [NoCall EXCEPT !.op = op, !.arg = arg, !.had = had]

\* the application constructs a Layer
NewLayer(l) ==
  /\ ~objs[l].made
  /\ \E args \in LayerArgs(l) : objs' = [objs EXCEPT ![l] = Layer(args)]
  /\ ret' = NoCall
  /\ UNCHANGED <<layers, canvas, global_effects, svars>>

\* an add_layer that puts the layer in front of the list
AddLayerFirst(l) ==
  /\ objs[l].made
  /\ Len(layers) < Cardinality(LayerIds)
  /\ layers' = <<l>> \o layers
  /\ ret' = Called("add_layer", l, FALSE)
  /\ UNCHANGED <<objs, canvas, global_effects, svars>>

\* add_layer(layer); a layer may be added again, up to as many entries as objects
AddLayer(l) ==
  /\ objs[l].made
  /\ Len(layers) < Cardinality(LayerIds)
  /\ layers' = Append(layers, l)
  /\ ret' = Called("add_layer", l, FALSE)
  /\ UNCHANGED <<objs, canvas, global_effects, svars>>

\* list.remove(x): the first item equal to x goes
ListRemove(s, x) ==
  LET i == CHOOSE k \in 1..Len(s) : s[k] = x /\ \A j \in 1..(k - 1) : s[j] # x
  IN SubSeq(s, 1, i - 1) \o SubSeq(s, i + 1, Len(s))

\* a remove_layer that, for a layer it does not find, drops the last layer
RemoveOrPop(l) ==
  /\ objs[l].made
  /\ LET had == \E k \in 1..Len(layers) : layers[k] = l IN
       /\ layers' = IF had THEN ListRemove(layers, l)
                    ELSE SubSeq(layers, 1, Len(layers) - 1)
       /\ ret' = Called("remove_layer", l, had)
  /\ UNCHANGED <<objs, canvas, global_effects, svars>>

\* remove_layer(layer): if layer in self.layers: self.layers.remove(layer)
RemoveLayer(l) ==
  /\ objs[l].made
  /\ LET had == \E k \in 1..Len(layers) : layers[k] = l IN
       /\ layers' = IF had THEN ListRemove(layers, l) ELSE layers
       /\ ret' = Called("remove_layer", l, had)
  /\ UNCHANGED <<objs, canvas, global_effects, svars>>

\* a clear that leaves the layer list alone
ClearCanvasOnly ==
  /\ canvas' = BlankCanvas
  /\ ret' = Called("clear", 0, layers # <<>>)
  /\ UNCHANGED <<layers, objs, global_effects, svars>>

\* clear(): self.layers.clear(); self.matrix.Clear(); self.canvas = Image.new(...)
ClearCall ==
  /\ layers' = <<>>
  /\ canvas' = BlankCanvas
  /\ ret' = Called("clear", 0, layers # <<>>)
  /\ UNCHANGED <<objs, global_effects, svars>>

\* layer.visible = b
SetVisible(l) ==
  /\ objs[l].made
  /\ objs' = [objs EXCEPT ![l].visible = ~objs[l].visible]
  /\ ret' = NoCall
  /\ UNCHANGED <<layers, canvas, global_effects, svars>>

\* layer.effects = [...] (rainbow_effect, line 395), on the layer under study
SetEffects(l) ==
  /\ objs[l].made /\ l # 1
  /\ \E chain \in Chains :
       /\ chain # objs[l].effects
       /\ objs' = [objs EXCEPT ![l].effects = chain]
  /\ ret' = NoCall
  /\ UNCHANGED <<layers, canvas, global_effects, svars>>

\* the application registers a global effect that is not registered yet
RegisterGlobal ==
  /\ Len(global_effects) < MaxGlobal
  /\ \E e \in Effects :
       /\ \A g \in 1..Len(global_effects) : global_effects[g] # e
       /\ global_effects' = Append(global_effects, e)
  /\ ret' = NoCall
  /\ UNCHANGED <<layers, objs, canvas, svars>>

\* ---------------------------------------------------------------- composite_layers
\* a composite that scales the alpha before it applies the layer's effects
LayerStepsOpacityFirst(ls, k) ==
  LET layer == objs[ls[k]] IN
    (IF layer.opacity < 256 THEN << <<"opacity", k>> >> ELSE <<>>)
    \o << <<"effects", k>> >>
    \o (IF layer.blend_mode \in {"normal", "add", "multiply"}
        THEN << <<"blend", k>> >> ELSE <<>>)

\* lines 168-183: what composite_layers does for the visible layer at index k of ls
LayerSteps(ls, k) ==
  LET layer == objs[ls[k]] IN
    << <<"effects", k>> >>
    \o (IF layer.opacity < 256 THEN << <<"opacity", k>> >> ELSE <<>>)
    \o (IF layer.blend_mode \in {"normal", "add", "multiply"}
        THEN << <<"blend", k>> >> ELSE <<>>)

\* a composite that draws the layers whatever their visible flag
SkipsNone(layer) == FALSE

\* lines 165-166: if not layer.visible: continue
Skips(layer) == ~layer.visible

RECURSIVE StepsFrom(_, _)
\* line 164: for layer in self.layers
StepsFrom(ls, k) ==
  IF k > Len(ls) THEN <<>>
  ELSE (IF Skips(objs[ls[k]]) THEN <<>> ELSE LayerSteps(ls, k)) \o StepsFrom(ls, k + 1)

\* lines 186-187: for effect in self.global_effects
GlobalSteps == [g \in 1..Len(global_effects) |-> <<"global", g>>]

\* one step of composite_layers on st = [result, img, ok, log]
Exec(ls, step, st) ==
  LET k == step[2]
      done == [st EXCEPT !.log = Append(st.log, step)]
  IN IF step[1] = "global"
     THEN [done EXCEPT !.result = ApplyEffect(global_effects[k], st.result)]
     ELSE LET layer == objs[ls[k]] IN
       CASE step[1] = "effects" -> [done EXCEPT !.img = ApplyEffectsOf(layer)]
         [] step[1] = "opacity" -> [done EXCEPT !.img = ScaleAlpha(st.img, layer.opacity)]
         [] OTHER ->
            CASE layer.blend_mode = "normal" ->
                   [done EXCEPT !.result = Paste(st.result, st.img, layer.x)]
              [] layer.blend_mode = "add" ->
                   \* Image.blend raises ValueError when the sizes differ
                   IF Len(st.img) # Len(st.result) THEN [done EXCEPT !.ok = FALSE]
                   ELSE [done EXCEPT !.result =
                           ImageBlend(st.result, st.img, layer.opacity)]
              [] OTHER ->
                   \* Image.composite(layer_img, result, layer_img): a paste at (0, 0)
                   [done EXCEPT !.result = Paste(st.result, st.img, 0)]

RECURSIVE Run(_, _, _, _)
Run(ls, steps, i, st) ==
  IF i > Len(steps) \/ ~st.ok THEN st
  ELSE Run(ls, steps, i + 1, Exec(ls, steps[i], st))

\* composite_layers() with self.layers = ls
CompositeOf(ls) ==
  Run(ls, StepsFrom(ls, 1) \o GlobalSteps, 1,
      [result |-> BlankCanvas, img |-> <<>>, ok |-> TRUE, log |-> <<>>])

\* an apply_effects that, for a layer without effects, returns the stored bitmap
\* itself: the putalpha of line 175 then scales the layer's content
StoredAliased(layer) ==
  IF layer.opacity < 256 /\ layer.effects = <<>>
  THEN ScaleAlpha(layer.content, layer.opacity)
  ELSE layer.content

\* layer.content after composite_layers has handled the layer: apply_effects works on
\* self.content.copy() (line 70) and putalpha (line 175) writes to that copy
Stored(layer) == layer.content

\* the Layer objects after composite_layers() with self.layers = ls; the loop assigns
\* no attribute of a layer
AfterComposite(ls) ==
  [l \in LayerIds |->
     IF (\E k \in 1..Len(ls) : ls[k] = l) /\ ~Skips(objs[l])
     THEN [objs[l] EXCEPT !.content = Stored(objs[l])]
     ELSE objs[l]]

\* composite_layers(), as render() calls it
CompositeLayers ==
  /\ LET out == CompositeOf(layers) IN
       ret' = [op |-> "composite", arg |-> 0, ok |-> out.ok,
               frame |-> IF out.ok THEN out.result ELSE <<>>,
               log |-> out.log, had |-> FALSE]
  /\ objs' = AfterComposite(layers)
  /\ UNCHANGED <<layers, canvas, global_effects, svars>>

\* layer.apply_effects(), called on the layer under study
ApplyEffects(l) ==
  /\ objs[l].made /\ l # 1
  /\ ret' = [op |-> "apply_effects", arg |-> l, ok |-> TRUE,
             frame |-> ApplyEffectsOf(objs[l]), log |-> <<>>, had |-> FALSE]
  /\ UNCHANGED <<layers, objs, canvas, global_effects, svars>>

\* ---------------------------------------------------------------- ColorEffect.apply on colours
\* the 8-bit values of a band in the runs of the hue shift
ChanVals == {0, 11, 15, 162, 255}

\* a colour is <<r, g, b>>
Colours == ChanVals \X ChanVals \X ChanVals

\* hue_shift = p / q as <<p, q>>: 0, 1/4, 1/2 and 3/4 are exact as doubles
HueShifts == {<<0, 1>>, <<1, 4>>, <<1, 2>>, <<3, 4>>}

\* -h mod 1.0
Negated(h) == <<(h[2] - h[1]) % h[2], h[2]>>

Max3(c) == IF c[1] >= c[2] /\ c[1] >= c[3] THEN c[1] ELSE IF c[2] >= c[3] THEN c[2] ELSE c[3]

Min3(c) == IF c[1] <= c[2] /\ c[1] <= c[3] THEN c[1] ELSE IF c[2] <= c[3] THEN c[2] ELSE c[3]

\* colorsys.rgb_to_hsv: the hue of a colour that is not grey, in units of
\* 1 / (6 * (maxc - minc))
HueOf(c) ==
  LET d == Max3(c) - Min3(c) IN
    IF c[1] = Max3(c) THEN (c[2] - c[3] + 6 * d) % (6 * d)
    ELSE IF c[2] = Max3(c) THEN (2 * d + c[3] - c[1]) % (6 * d)
    ELSE (4 * d + c[1] - c[2]) % (6 * d)

\* line 101: int(x * 255) where x * 255 is the double computed for the exact value
\* num / den.  int() truncates; the double of a whole number k may lie just below k
IntOf(num, den) ==
  IF num % den = 0 /\ num \div den > 0 THEN {num \div den, num \div den - 1}
  ELSE {num \div den}

\* colorsys.hsv_to_rgb in sector i with f = rem / (d * q), and the three int() of
\* line 101: v * 255 = mx; p * 255 = mn; q * 255 = mx - d * f; t * 255 = mn + d * f
Sector(i, rem, mx, mn, q) ==
  {CASE i = 0 -> <<mx, T, P>>
     [] i = 1 -> <<Q, mx, P>>
     [] i = 2 -> <<P, mx, T>>
     [] i = 3 -> <<P, Q, mx>>
     [] i = 4 -> <<T, P, mx>>
     [] OTHER -> <<mx, P, Q>> :
   P \in IntOf(mn, 1), Q \in IntOf(mx * q - rem, q), T \in IntOf(mn * q + rem, q)}

\* lines 96-101 with saturation = brightness = 1.0: the colours that
\* ColorEffect(hue_shift=h).apply can return for colour c.  A hue on the border of
\* two sectors may fall into either of them
HueOutcomes(c, h) ==
  LET mx == Max3(c)
      mn == Min3(c)
      d == mx - mn
      q == h[2]
  IN IF d = 0 THEN {c}
     ELSE LET X == (HueOf(c) * q + 6 * d * h[1]) % (6 * d * q)
              i == X \div (d * q)
              rem == X % (d * q)
          IN Sector(i, rem, mx, mn, q)
               \cup (IF rem = 0 THEN Sector((i + 5) % 6, d * q, mx, mn, q) ELSE {})

\* ColorEffect(hue_shift=h).apply(image) on the one-pixel image of layer 2
HueShift ==
  /\ ret.op = "none"
  /\ \E h \in HueShifts :
       \E out \in HueOutcomes(objs[2].content[1], h) :
         ret' = [NoCall EXCEPT !.op = "hue", !.arg = h, !.frame = <<out>>]
  /\ UNCHANGED <<layers, objs, canvas, global_effects, svars>>

\* ColorEffect(hue_shift=-h % 1.0).apply on the image that the first call returned
HueShiftBack ==
  /\ ret.op = "hue"
  /\ \E out \in HueOutcomes(ret.frame[1], Negated(ret.arg)) :
       ret' = [ret EXCEPT !.op = "hue_back", !.frame = <<out>>]
  /\ UNCHANGED <<layers, objs, canvas, global_effects, svars>>

\* ---------------------------------------------------------------- app.py: the web control panel
\* Flask serves every request on a thread of its own: ctl[c] is the handler of
\* request c.  thr[r] is the display thread that the r-th start request creates, and
\* r is also the ticker that request creates; thr[r].i is the ticker on which the
\* thread calls start().

\* the positions of a handler at which it holds display_lock
Locked == {"sc_stop", "sc_drop", "sc_join", "st_new", "st_thread"}

LockFree == \A c \in Ctls : ctl[c].pc \notin Locked

\* the start requests that have not created their ticker yet
Pending == {c \in Ctls : ctl[c].op = "start" /\ ctl[c].pc \notin {"idle", "st_thread"}}

\* api_start_app: start_sports_display / start_news_display / start_mta_display
\* begins with stop_current_display(); a run creates at most MaxThreads tickers
ApiStart(c) ==
  /\ ctl[c].pc = "idle"
  /\ Cardinality(Allocated) + Cardinality(Pending) < MaxThreads
  /\ ctl' = [ctl EXCEPT ![c] = [IdleCtl EXCEPT !.pc = "sc_lock", !.op = "start"]]
  /\ UNCHANGED <<is_running, animation_thread, layers, running, current_display,
                 thr, rendered, menu, canvas, cvars>>

\* api_stop: stop_current_display()
ApiStop(c) ==
  /\ ctl[c].pc = "idle"
  /\ ctl' = [ctl EXCEPT ![c] = [IdleCtl EXCEPT !.pc = "sc_lock", !.op = "stop"]]
  /\ UNCHANGED <<is_running, animation_thread, layers, running, current_display,
                 thr, rendered, menu, canvas, cvars>>

\* stop_current_display, lines 104-105: with display_lock: if current_display
StopAcquire(c) ==
  /\ ctl[c].pc = "sc_lock"
  /\ LockFree
  /\ ctl' = [ctl EXCEPT ![c].pc = IF current_display # 0 THEN "sc_stop" ELSE "sc_join"]
  /\ UNCHANGED <<is_running, animation_thread, layers, running, current_display,
                 thr, rendered, menu, canvas, cvars>>

\* line 107: current_display.stop(), which sets the ticker's running to False
StopDisplay(c) ==
  /\ ctl[c].pc = "sc_stop"
  /\ running' = [running EXCEPT ![current_display] = FALSE]
  /\ ctl' = [ctl EXCEPT ![c].pc = "sc_drop"]
  /\ UNCHANGED <<is_running, animation_thread, layers, current_display,
                 thr, rendered, menu, canvas, cvars>>

\* lines 112-113: current_display = None
DropDisplay(c) ==
  /\ ctl[c].pc = "sc_drop"
  /\ current_display' = 0
  /\ ctl' = [ctl EXCEPT ![c].pc = "sc_join"]
  /\ UNCHANGED <<is_running, animation_thread, layers, running,
                 thr, rendered, menu, canvas, cvars>>

\* lines 115-116: display_thread.join(timeout=5) returns, with the thread ended or
\* not, and the lock is released; a start request goes on to its own
\* with display_lock (lines 124, 180, 218)
JoinRelease(c) ==
  /\ ctl[c].pc = "sc_join"
  /\ ctl' = [ctl EXCEPT ![c] = IF ctl[c].op = "start"
                                THEN [ctl[c] EXCEPT !.pc = "st_lock"]
                                ELSE [IdleCtl EXCEPT !.last = "stop"]]
  /\ UNCHANGED <<is_running, animation_thread, layers, running, current_display,
                 thr, rendered, menu, canvas, cvars>>

StartAcquire(c) ==
  /\ ctl[c].pc = "st_lock"
  /\ LockFree
  /\ ctl' = [ctl EXCEPT ![c].pc = "st_new"]
  /\ UNCHANGED <<is_running, animation_thread, layers, running, current_display,
                 thr, rendered, menu, canvas, cvars>>

\* lines 143, 185, 226: current_display = SportsTicker(...) / NewsTicker(...) /
\* MTADisplay(...), whose running is False; lines 167, 203, 244: the Thread object
NewDisplay(c) ==
  /\ ctl[c].pc = "st_new"
  /\ current_display' = NextId
  /\ thr' = [thr EXCEPT ![NextId] = [NoRoutine EXCEPT !.st = "created",
                                                      !.kind = "display", !.pc = "d_read"]]
  /\ ctl' = [ctl EXCEPT ![c].pc = "st_thread", ![c].r = NextId]
  /\ UNCHANGED <<is_running, animation_thread, layers, running,
                 rendered, menu, canvas, cvars>>

\* lines 168, 204, 245: display_thread.start(); the handler returns True
StartDisplayThread(c) ==
  /\ ctl[c].pc = "st_thread"
  /\ thr' = [thr EXCEPT ![ctl[c].r].st = "live"]
  /\ ctl' = [ctl EXCEPT ![c] = [IdleCtl EXCEPT !.last = "start"]]
  /\ UNCHANGED <<is_running, animation_thread, layers, running, current_display,
                 rendered, menu, canvas, cvars>>

\* run_sports / run_news / run_mta, lines 161-163: the thread evaluates the global
\* current_display when it runs; on None the AttributeError is caught and logged
RunRead(r) ==
  /\ Live(r) /\ thr[r].pc = "d_read"
  /\ IF current_display = 0 THEN Return(r, "returned")
     ELSE thr' = [thr EXCEPT ![r].pc = "d_set", ![r].i = current_display]
  /\ UNCHANGED <<is_running, animation_thread, layers, running, current_display,
                 ctl, rendered, menu, canvas, cvars>>

\* ticker.start(), news_ticker.py line 498: self.running = True
RunSetRunning(r) ==
  /\ Live(r) /\ thr[r].pc = "d_set"
  /\ running' = [running EXCEPT ![thr[r].i] = TRUE]
  /\ Goto(r, "d_anim")
  /\ UNCHANGED <<is_running, animation_thread, layers, current_display,
                 ctl, rendered, menu, canvas, cvars>>

\* news_ticker.py lines 500-527: the update thread, the wait, start_animation(scroll);
\* start() returns and the display thread ends
RunStarted(r) ==
  /\ Live(r) /\ thr[r].pc = "d_anim"
  /\ Return(r, "completed")
  /\ UNCHANGED <<is_running, animation_thread, layers, running, current_display,
                 ctl, rendered, menu, canvas, cvars>>

\* ---------------------------------------------------------------- mta_ticker.py: MTADisplay, static mode
\* thr[1] is the thread of display_loop and thr[2] the update thread of the
\* MTADisplay, which is ticker 1; thr[t].i is the MTADisplay whose code thread t runs.

\* start_static_display, lines 334-343: self.running = True; the update thread is
\* created and started; the initial collect_data()
StartStaticDisplay(c) ==
  /\ ctl[c].pc = "idle"
  /\ Allocated = {}
  /\ "static" \in menu
  /\ running' = [running EXCEPT ![1] = TRUE]
  /\ current_display' = 1
  /\ thr' = [thr EXCEPT ![2] = [NoRoutine EXCEPT !.st = "live", !.kind = "update",
                                                  !.pc = "u_top", !.i = 1]]
  /\ ctl' = [ctl EXCEPT ![c] = [IdleCtl EXCEPT !.pc = "ms_loop", !.op = "start"]]
  /\ UNCHANGED <<is_running, animation_thread, layers, rendered, menu, canvas, cvars>>

\* lines 359-361: display_thread = Thread(target=display_loop); start(); the thread
\* is kept in a local variable only
StartDisplayLoop(c) ==
  /\ ctl[c].pc = "ms_loop"
  /\ thr' = [thr EXCEPT ![1] = [NoRoutine EXCEPT !.st = "live", !.kind = "static",
                                                  !.pc = "sd_top", !.i = 1]]
  /\ ctl' = [ctl EXCEPT ![c] = [IdleCtl EXCEPT !.last = "start"]]
  /\ UNCHANGED <<is_running, animation_thread, layers, running, current_display,
                 rendered, menu, canvas, cvars>>

\* update_data, lines 324-328: while self.running: collect_data()
UpdateTop(t) ==
  /\ Live(t) /\ thr[t].pc = "u_top"
  /\ IF running[thr[t].i] THEN Goto(t, "u_sleep") ELSE Return(t, "returned")
  /\ UNCHANGED <<is_running, animation_thread, layers, running, current_display,
                 ctl, rendered, menu, canvas, cvars>>

\* line 330: time.sleep(self.update_interval)
UpdateSleep(t) ==
  /\ Live(t) /\ thr[t].pc = "u_sleep"
  /\ Goto(t, "u_top")
  /\ UNCHANGED <<is_running, animation_thread, layers, running, current_display,
                 ctl, rendered, menu, canvas, cvars>>

\* display_loop, lines 347-349: while self.running: create_display_image()
StaticTop(t) ==
  /\ Live(t) /\ thr[t].pc = "sd_top"
  /\ IF running[thr[t].i] THEN Checked(t, "sd_clear") ELSE Return(t, "returned")
  /\ UNCHANGED <<is_running, animation_thread, layers, running, current_display,
                 ctl, rendered, menu, canvas, cvars>>

\* line 351: self.display.clear()
StaticClear(t) ==
  /\ Live(t) /\ thr[t].pc = "sd_clear"
  /\ canvas' = BlankCanvas
  /\ layers' = <<>>
  /\ Goto(t, "sd_add")
  /\ UNCHANGED <<is_running, animation_thread, running, current_display,
                 ctl, rendered, menu, cvars>>

\* lines 352-353: self.display.add_layer(Layer(display_img))
StaticAdd(t) ==
  /\ Live(t) /\ thr[t].pc = "sd_add"
  /\ layers' = Append(layers, t)
  /\ Goto(t, "sd_render")
  /\ UNCHANGED <<is_running, animation_thread, running, current_display,
                 ctl, rendered, menu, canvas, cvars>>

\* lines 354-357: self.display.render(); time.sleep(1)
StaticRender(t) ==
  /\ Live(t) /\ thr[t].pc = "sd_render"
  /\ \/ /\ Render(t)
        /\ thr' = [thr EXCEPT ![t].pc = "sd_top", ![t].chk = FALSE]
     \/ SinkFails(t)
  /\ UNCHANGED <<is_running, animation_thread, layers, running, current_display,
                 ctl, menu, canvas, cvars>>

\* MTADisplay.stop, line 403: self.running = False
MtaStop(c) ==
  /\ ctl[c].pc = "idle"
  /\ current_display # 0
  /\ running' = [running EXCEPT ![current_display] = FALSE]
  /\ ctl' = [ctl EXCEPT ![c] = [IdleCtl EXCEPT !.pc = "ms_join", !.op = "tstop"]]
  /\ UNCHANGED <<is_running, animation_thread, layers, current_display,
                 thr, rendered, menu, canvas, cvars>>

\* lines 404-405: self.update_thread.join(timeout=5) returns, the update thread
\* having ended or the timeout having expired; line 406: self.display.stop_animation()
MtaJoin(c) ==
  /\ ctl[c].pc = "ms_join"
  /\ ctl' = [ctl EXCEPT ![c].pc = "stop_flag"]
  /\ UNCHANGED <<is_running, animation_thread, layers, running, current_display,
                 thr, rendered, menu, canvas, cvars>>

\* ---------------------------------------------------------------- mta.py, main.py: the legacy display
\* A stop time update of the station is <<arrival, direction>>; a train_info is
\* <<arrival_time, minutes>>, the tuple of line 46 with minutes for its string.

\* what the feeds can report at minute now
Updates(now) == {<<now + k, d>> : k \in 1..Horizon, d \in {"N", "S"}}

\* lines 40-46: the train_info of the updates of direction d
Infos(found, d, now) == {<<u[1], u[1] - now>> : u \in {v \in found : v[2] = d}}

\* the order of tuples: by arrival time, then by the string
Before(a, b) == a[1] < b[1] \/ (a[1] = b[1] /\ a[2] <= b[2])

RECURSIVE Insert(_, _)
Insert(s, e) ==
  IF s = <<>> THEN <<e>>
  ELSE IF Before(e, s[1]) THEN <<e>> \o s
  ELSE <<s[1]>> \o Insert(Tail(s), e)

RECURSIVE SortedList(_)
\* list.sort() (lines 56-57)
SortedList(s) == IF s = <<>> THEN <<>> ELSE Insert(SortedList(Tail(s)), s[1])

RECURSIVE AppendAll(_, _)
\* lines 50-53: list.append for each update found
AppendAll(s, S) ==
  IF S = {} THEN s
  ELSE LET e == CHOOSE x \in S : TRUE IN AppendAll(Append(s, e), S \ {e})

\* lines 63-67: the train_info strings of trains[:4]
Listed(trains) ==
  [k \in 1..(IF Len(trains) < ListShown THEN Len(trains) ELSE ListShown) |-> trains[k][2]]

\* main.py line 15: mta.collectData() returns; the lists are appended to and sorted,
\* the strings are built anew
CollectData ==
  /\ mta.pc = "refresh"
  /\ mta.now < MaxFetches
  /\ \E found \in SUBSET Updates(mta.now) :
       LET up == SortedList(AppendAll(mta.uptown_trains, Infos(found, "N", mta.now)))
           down == SortedList(AppendAll(mta.downtown_trains, Infos(found, "S", mta.now)))
       IN mta' = [mta EXCEPT !.uptown_trains = up, !.downtown_trains = down,
                             !.uptownString = Listed(up), !.downtownString = Listed(down),
                             !.found = found, !.pc = "show"]
  /\ UNCHANGED <<is_running, animation_thread, layers, running, current_display,
                 thr, ctl, rendered, menu, objs, canvas, global_effects, ret>>

\* main.py lines 14-18: collectData() raises in its first NYCTFeed call (line 24);
\* the matrix shows the error and main() goes on to the next refresh
CollectFails ==
  /\ mta.pc = "refresh"
  /\ mta.now < MaxFetches
  /\ mta' = [mta EXCEPT !.now = mta.now + 1, !.shown = <<"Error fetching">>]
  /\ UNCHANGED <<is_running, animation_thread, layers, running, current_display,
                 thr, ctl, rendered, menu, objs, canvas, global_effects, ret>>

\* main.py lines 20-21: rgb.displayText(mta.uptownString, mta.downtownString), 16
\* times; then the next refresh, a minute later
DisplayText ==
  /\ mta.pc = "show"
  /\ mta' = [mta EXCEPT !.shown = <<mta.uptownString, mta.downtownString>>,
                        !.now = mta.now + 1, !.pc = "refresh"]
  /\ UNCHANGED <<is_running, animation_thread, layers, running, current_display,
                 thr, ctl, rendered, menu, objs, canvas, global_effects, ret>>

\* ---------------------------------------------------------------- specifications
Worker(t) ==
  \/ ScrollOuter(t) \/ ScrollInner(t) \/ ScrollRender(t)
  \/ FadeSet(t) \/ FadeRender(t) \/ FadeCheck(t)
  \/ SlideOuter(t) \/ SlideFor(t) \/ SlideBuild(t) \/ SlideFade(t)
  \/ SlideAssign(t) \/ SlideRender(t)
  \/ FireTop(t) \/ FireClear(t) \/ FireAdd(t) \/ FireRender(t)
  \/ ParticleInit(t) \/ ParticleTop(t) \/ ParticleClear(t) \/ ParticleAdd(t)
  \/ ParticleRender(t)
  \/ TickTop(t) \/ TickClear(t) \/ TickAdd(t) \/ TickInner(t) \/ TickRender(t)

\* a builder called by the control surface
Start(c) ==
  \/ ScrollText(c) \/ FadeTransition(c) \/ CreateSlideshow(c) \/ FireEffect(c)
  \/ ParticleSystem(c) \/ TickerStart(c)

\* a call issued by the control surface
Call(c) ==
  \/ Start(c) \/ StopAnimation(c) \/ TickerStop(c) \/ Clear(c)

\* the steps of a call in progress
Progress(c) ==
  \/ StopFlag(c) \/ StopJoin(c) \/ SetFlag(c) \/ NewThread(c) \/ StartThread(c)
  \/ StopClear(c)

\* one control thread (the owning control surface)
Next ==
  \/ Call(1)
  \/ Progress(1)
  \/ \E t \in Threads : Worker(t)

Spec == Init /\ [][Next]_vars

\* the worker threads and a call in progress keep being scheduled
FairSpec ==
  /\ Spec
  /\ WF_vars(Progress(1))
  /\ \A t \in Threads : WF_vars(Worker(t))

\* two threads that call the display concurrently
NextConc ==
  \/ \E c \in Ctls : Call(c)
  \/ \E c \in Ctls : Progress(c)
  \/ \E t \in Threads : Worker(t)

SpecConc == Init /\ [][NextConc]_vars

\* one routine on its own: the application starts one animation, with arguments of
\* its choice, lets it run and may stop it; nothing else writes to the display
InitSolo ==
  /\ is_running = FALSE
  /\ animation_thread = 0
  /\ layers = <<>>
  /\ running = [r \in Threads |-> FALSE]
  /\ current_display = 0
  /\ thr = [r \in Threads |-> NoRoutine]
  /\ ctl = [c \in Ctls |-> IdleCtl]
  /\ rendered = FALSE
  /\ menu \in {m \cup {"observed"} : m \in Menus \cup {{"pulse"}, {"gif"}}}
  /\ objs = [l \in LayerIds |-> NoLayer]
  /\ canvas = BlankCanvas
  /\ global_effects = <<>>
  /\ ret = NoCall
  /\ mta = NoTrains

StartSolo(c) ==
  \/ ScrollTextAnySpeed(c) \/ FadeTransition(c) \/ PulseEffect(c) \/ CreateSlideshow(c)
  \/ AnimateGif(c) \/ FireEffect(c) \/ ParticleSystem(c) \/ TickerStart(c)

WorkerSolo(t) ==
  \/ Worker(t)
  \/ PulseTop(t) \/ PulseSet(t) \/ PulseRender(t)
  \/ GifOuter(t) \/ GifFor(t) \/ GifClear(t) \/ GifAdd(t) \/ GifRender(t)

NextSolo ==
  \/ Allocated = {} /\ StartSolo(1)
  \/ StopAnimation(1) \/ TickerStop(1)
  \/ Progress(1)
  \/ \E t \in Threads : WorkerSolo(t)

SpecSolo == InitSolo /\ [][NextSolo]_vars

\* the compositor on its own: no animation is running, the application builds
\* layers and composites them
InitComp ==
  /\ is_running = FALSE
  /\ animation_thread = 0
  /\ layers = <<>>
  /\ running = [r \in Threads |-> FALSE]
  /\ current_display = 0
  /\ thr = [r \in Threads |-> NoRoutine]
  /\ ctl = [c \in Ctls |-> IdleCtl]
  /\ rendered = FALSE
  /\ menu = {}
  /\ objs = [l \in LayerIds |-> NoLayer]
  /\ canvas = BlankCanvas
  /\ global_effects = <<>>
  /\ ret = NoCall
  /\ mta = NoTrains

NextComp ==
  \/ \E l \in LayerIds : NewLayer(l)
  \/ \E l \in LayerIds : AddLayer(l)
  \/ \E l \in LayerIds : SetVisible(l)
  \/ \E l \in LayerIds : SetEffects(l)
  \/ RegisterGlobal
  \/ CompositeLayers
  \/ \E l \in LayerIds : ApplyEffects(l)

SpecComp == InitComp /\ [][NextComp]_vars

\* the web control panel: requests to /api/start/<app> and /api/stop, each on its
\* own handler thread, and the display threads they create
NextApp ==
  \/ \E c \in Ctls : ApiStart(c) \/ ApiStop(c)
  \/ \E c \in Ctls : StopAcquire(c) \/ StopDisplay(c) \/ DropDisplay(c) \/ JoinRelease(c)
  \/ \E c \in Ctls : StartAcquire(c) \/ NewDisplay(c) \/ StartDisplayThread(c)
  \/ \E r \in Threads : RunRead(r) \/ RunSetRunning(r) \/ RunStarted(r)

SpecApp == InitComp /\ [][NextApp]_vars

\* ColorEffect on its own: an image of one pixel, shifted in hue and shifted back
InitHue ==
  /\ is_running = FALSE
  /\ animation_thread = 0
  /\ layers = <<>>
  /\ running = [r \in Threads |-> FALSE]
  /\ current_display = 0
  /\ thr = [r \in Threads |-> NoRoutine]
  /\ ctl = [c \in Ctls |-> IdleCtl]
  /\ rendered = FALSE
  /\ menu = {}
  /\ \E c \in Colours :
       objs = [l \in LayerIds |->
                 IF l = 2 THEN [NoLayer EXCEPT !.made = TRUE, !.content = <<c>>]
                 ELSE NoLayer]
  /\ canvas = BlankCanvas
  /\ global_effects = <<>>
  /\ ret = NoCall
  /\ mta = NoTrains

NextHue == HueShift \/ HueShiftBack

SpecHue == InitHue /\ [][NextHue]_vars

\* the layer list on its own: the application adds, removes and clears layers, before
\* any animation or after a scroll_text(loop=False) has run to its end (is_running is
\* then still True and animation_thread refers to the ended thread)
InitList ==
  /\ \E after \in BOOLEAN :
       /\ is_running = after
       /\ animation_thread = (IF after THEN 1 ELSE 0)
       /\ thr = [r \in Threads |->
                   IF after /\ r = 1
                   THEN [NoRoutine EXCEPT !.st = "done", !.pc = "completed"]
                   ELSE NoRoutine]
       /\ ctl = [c \in Ctls |->
                   IF after /\ c = 1 THEN [IdleCtl EXCEPT !.last = "start"] ELSE IdleCtl]
       /\ menu = (IF after THEN {"scroll"} ELSE {})
  /\ layers = <<>>
  /\ running = [r \in Threads |-> FALSE]
  /\ current_display = 0
  /\ rendered = FALSE
  /\ objs = [l \in LayerIds |-> NoLayer]
  /\ canvas = BlankCanvas
  /\ global_effects = <<>>
  /\ ret = NoCall
  /\ mta = NoTrains

NextList ==
  \/ \E l \in LayerIds : NewLayer(l)
  \/ \E l \in LayerIds : AddLayer(l)
  \/ \E l \in LayerIds : RemoveLayer(l)
  \/ ClearCall
  \/ RegisterGlobal

SpecList == InitList /\ [][NextList]_vars

\* scroll_text called while a routine that calls clear() in every frame is running:
\* the application starts a fire_effect or a particle_system and then a scroll_text
InitMixed ==
  /\ is_running = FALSE
  /\ animation_thread = 0
  /\ layers = <<>>
  /\ running = [r \in Threads |-> FALSE]
  /\ current_display = 0
  /\ thr = [r \in Threads |-> NoRoutine]
  /\ ctl = [c \in Ctls |-> IdleCtl]
  /\ rendered = FALSE
  /\ menu \in {{"scroll", "fire"}, {"scroll", "particles"}}
  /\ objs = [l \in LayerIds |-> NoLayer]
  /\ canvas = BlankCanvas
  /\ global_effects = <<>>
  /\ ret = NoCall
  /\ mta = NoTrains

NextMixed ==
  \/ ScrollText(1) \/ FireEffect(1) \/ ParticleSystem(1) \/ StopAnimation(1)
  \/ StopFlag(1) \/ StopJoin(1) \/ SetFlag(1) \/ NewThread(1) \/ StartThread(1)
  \/ \E t \in Threads : ScrollOuter(t) \/ ScrollInner(t) \/ ScrollRender(t)
  \/ \E t \in Threads : FireTop(t) \/ FireClear(t) \/ FireAdd(t) \/ FireRender(t)
  \/ \E t \in Threads : ParticleInit(t) \/ ParticleTop(t) \/ ParticleClear(t)
                          \/ ParticleAdd(t) \/ ParticleRender(t)

SpecMixed == InitMixed /\ [][NextMixed]_vars

\* an MTADisplay in static mode: the control surface starts it and stops it
InitStatic ==
  /\ is_running = FALSE
  /\ animation_thread = 0
  /\ layers = <<>>
  /\ running = [r \in Threads |-> FALSE]
  /\ current_display = 0
  /\ thr = [r \in Threads |-> NoRoutine]
  /\ ctl = [c \in Ctls |-> IdleCtl]
  /\ rendered = FALSE
  /\ menu = {"static"}
  /\ objs = [l \in LayerIds |-> NoLayer]
  /\ canvas = BlankCanvas
  /\ global_effects = <<>>
  /\ ret = NoCall
  /\ mta = NoTrains

NextStatic ==
  \/ StartStaticDisplay(1) \/ StartDisplayLoop(1)
  \/ MtaStop(1) \/ MtaJoin(1) \/ StopFlag(1) \/ StopJoin(1) \/ StopClear(1)
  \/ \E t \in Threads : UpdateTop(t) \/ UpdateSleep(t)
  \/ \E t \in Threads : StaticTop(t) \/ StaticClear(t) \/ StaticAdd(t) \/ StaticRender(t)

SpecStatic == InitStatic /\ [][NextStatic]_vars

\* matrix_rain_effect on its own, started on a display to which the application has
\* added up to RainLimit layers (layer 0 stands for each of them)
InitRain ==
  /\ is_running = FALSE
  /\ animation_thread = 0
  /\ layers \in {[k \in 1..len |-> 0] : len \in 0..RainLimit}
  /\ running = [r \in Threads |-> FALSE]
  /\ current_display = 0
  /\ thr = [r \in Threads |-> NoRoutine]
  /\ ctl = [c \in Ctls |-> IdleCtl]
  /\ rendered = FALSE
  /\ menu = {"rain"}
  /\ objs = [l \in LayerIds |-> NoLayer]
  /\ canvas = BlankCanvas
  /\ global_effects = <<>>
  /\ ret = NoCall
  /\ mta = NoTrains

NextRain ==
  \/ Allocated = {} /\ MatrixRainEffect(1)
  \/ StopAnimation(1)
  \/ StopFlag(1) \/ StopJoin(1) \/ SetFlag(1) \/ NewThread(1) \/ StartThread(1)
  \/ \E t \in Threads : RainFont(t) \/ RainTop(t) \/ RainOverlay(t) \/ RainColumn(t)
                          \/ RainRender(t) \/ RainTrim(t)

SpecRain == InitRain /\ [][NextRain]_vars

\* the legacy program: main() refreshes and shows, again and again
NextLegacy == CollectData \/ CollectFails \/ DisplayText

SpecLegacy == InitComp /\ [][NextLegacy]_vars

TypeOK ==
  /\ is_running \in BOOLEAN
  /\ animation_thread \in 0..MaxThreads
  /\ current_display \in 0..MaxThreads
  /\ menu \subseteq Kinds \cup {"pulse", "gif", "rain", "observed", "static"}
  /\ rendered \in BOOLEAN
  /\ canvas = BlankCanvas
  /\ Len(layers) <= MaxLayers + MaxThreads + RainColumns
  /\ Len(global_effects) <= MaxGlobal
  /\ \A l \in LayerIds : Len(objs[l].effects) <= MaxChain

\* ---------------------------------------------------------------- claims
\* the control thread is between calls and the call that returned last is `what`
Returned(what) == ctl[1].pc = "idle" /\ ctl[1].last = what

\* a worker whose join timed out and that a later start_animation has superseded
Superseded(t) == Live(t) /\ animation_thread # t

\* C1: start_animation fully stops the previous animation before the new one begins:
\* in the step that starts the new worker thread no other worker thread is alive.
C1_PreviousStoppedAtStart ==
  [][\A r \in Threads :
       (thr[r].st = "created" /\ thr'[r].st = "live")
         => \A u \in Threads \ {r} : ~Live(u)]_vars

\* C2: in every reachable state at most one worker thread is alive.
C2_AtMostOneWorker == Cardinality(LiveThreads) <= 1

\* C3: concurrent start_animation calls behave as if serialized: the thread a call
\* starts is the thread animation_thread refers to, and a join never meets a Thread
\* that another call has created and not yet started.
C3_AsIfSerialized ==
  \A c \in Ctls :
    /\ ctl[c].pc = "start_thread" => animation_thread = ctl[c].r
    /\ (ctl[c].pc = "stop_join" /\ animation_thread # 0)
         => thr[animation_thread].st # "created"

\* C4: once the latest start_animation call has returned, only the routine of that
\* call renders: a superseded routine renders no further frame.
C4_OnlySecondRenders ==
  [][\A u \in Threads :
       (Returned("start") /\ Renders(u)) => u = animation_thread]_vars

\* C5: the renders of a superseded routine and of its successor never interleave:
\* after the successor has rendered its first frame the superseded routine renders
\* no frame.
C5_NoInterleavedRenders ==
  [][\A u \in Threads :
       (Renders(u) /\ u # animation_thread) => ~rendered]_vars

\* C6: stop_animation() always returns and leaves is_running False: its join step can
\* always be taken (also with animation_thread None, and with a worker that is still
\* alive, where the timeout ends the wait), and when it has returned, to its caller or
\* inside start_animation or a ticker's stop(), is_running is False whatever the
\* state of the worker.
C6_StopLeavesIdle ==
  /\ ctl[1].pc = "stop_join" => ENABLED StopJoin(1)
  /\ (ctl[1].pc \in {"set_flag", "clear"} \/ Returned("stop")) => ~is_running

\* stop_animation() has returned to its caller while the worker it waited for is alive
C6_Witness ==
  /\ Returned("stop")
  /\ animation_thread # 0 /\ Live(animation_thread)
  /\ ~is_running

\* C7: a routine that outlives the join timeout eventually terminates, also when a
\* superseding start_animation has started a new routine in the meantime.
C7_SupersededTerminates ==
  \A t \in Threads : Superseded(t) ~> ~Live(t)

\* C8: when a routine completes its single pass and returns, is_running is False
\* without a stop_animation call: after start_animation has returned and the routine
\* it started has run to completion, the scheduler is idle.
C8_IdleAfterCompletion ==
  \A t \in Threads :
    (Returned("start") /\ t = animation_thread
       /\ thr[t].st = "done" /\ thr[t].pc = "completed") => ~is_running

\* C9: when a routine raises, the scheduler becomes idle: after start_animation has
\* returned and the routine it started has ended with an exception, is_running is False.
C9_IdleAfterFault ==
  \A t \in Threads :
    (Returned("start") /\ t = animation_thread /\ thr[t].st = "raised") => ~is_running

\* C10: after stop_animation() followed by clear(), or a ticker's stop(), the layer
\* list is empty, and it stays empty until the caller issues the next call.
C10_EmptyAfterStopClear == Returned("stopclear") => layers = <<>>

\* C11: single writer: while an animation routine is live, every change of the layer
\* list is made by that routine's thread, which is the only live worker; the control
\* thread makes none.
C11_SingleWriter ==
  [][(layers' # layers /\ LiveThreads # {})
       => (ctl' = ctl /\ \A u \in LiveThreads : thr'[u] # thr[u])]_vars

\* C12: every routine reads its cancellation flag before its first render() and
\* between any two consecutive render() calls.
C12_CheckBeforeEachRender ==
  [][\A u \in Threads : Renders(u) => thr[u].chk]_vars

\* C13: the infinite-effect routines loop until cancelled: a fire_effect or
\* particle_system routine never exits on its own, its thread ends only by returning
\* at a loop-top check that has read is_running as False.
C13_InfiniteUntilCancelled ==
  [][\A t \in Threads :
       (Live(t) /\ thr[t].kind \in {"fire", "particles"} /\ thr'[t].st # "live")
         => (thr'[t].st = "done" /\ thr'[t].pc = "returned" /\ ~is_running)]_vars

\* layer l is in the list s
InList(s, l) == \E k \in 1..Len(s) : s[k] = l

C15_ClearDropsAll ==
  [][ret'.op = "clear" =>
       /\ layers' = <<>>
       /\ canvas' = [i \in 1..DispW |-> [c |-> 0, a |-> 0]]
       /\ UNCHANGED <<is_running, animation_thread, global_effects>>]_vars

\* clear() has returned on a list that held layers, with is_running True and a global
\* effect registered
C15_Witness ==
  /\ ret.op = "clear" /\ ret.had
  /\ layers = <<>>
  /\ is_running /\ animation_thread # 0 /\ global_effects # <<>>

\* layer l is drawn as it is stored: visible, fully opaque, normal blend mode
OpaqueNormal(l) ==
  /\ objs[l].visible /\ objs[l].opacity = 256 /\ objs[l].blend_mode = "normal"
  /\ \A i \in 1..Len(objs[l].content) : objs[l].content[i].a = 255

\* the pixels of the display that layer l covers
Covered(l) == {i \in 1..DispW : i - objs[l].x \in 1..Len(objs[l].content)}

\* the colour layer l shows at display pixel i, after its effects
ShownColour(l, i) == ApplyEffectsOf(objs[l])[i - objs[l].x].c

\* a colour after the global effects
ThroughGlobals(c) == ApplyChain(global_effects, 1, Solid(1, c, 255))[1].c

\* C16: paint order is insertion order: add_layer appends at the end of the list; for
\* two overlapping opaque layers in normal mode the layer inserted last shows at the
\* pixels they share, in the order given and in the swapped order, so that with
\* different colours (and no global effect that merges them) the swap changes the
\* output there.
C16_PaintOrder ==
  /\ [][ret'.op = "add_layer" => layers' = Append(layers, ret'.arg)]_vars
  /\ [](\A p, q \in LayerIds :
          (ret.op = "composite" /\ ret.ok /\ layers = <<p, q>>
             /\ OpaqueNormal(p) /\ OpaqueNormal(q))
          => \A i \in Covered(p) \cap Covered(q) :
               LET swapped == CompositeOf(<<q, p>>).result[i].c IN
                 /\ ret.frame[i].c = ThroughGlobals(ShownColour(q, i))
                 /\ swapped = ThroughGlobals(ShownColour(p, i))
                 /\ (ShownColour(p, i) # ShownColour(q, i) /\ global_effects = <<>>)
                      => ret.frame[i].c # swapped)

\* two opaque layers of different colours have been composited, the later one in front
C16_Witness ==
  /\ ret.op = "composite" /\ ret.ok /\ layers = <<1, 2>>
  /\ OpaqueNormal(1) /\ OpaqueNormal(2) /\ global_effects = <<>>
  /\ 1 \in Covered(1) \cap Covered(2)
  /\ ret.frame[1].c = ShownColour(2, 1) /\ ShownColour(1, 1) # ShownColour(2, 1)

\* C17: composite_layers() skips the layers whose visible flag is False: its outcome is
\* the outcome for the list without them, whatever their position, opacity, blend
\* mode and effects.
C17_InvisibleSkipped ==
  ret.op = "composite" =>
    LET shown == CompositeOf(SelectSeq(layers, LAMBDA l : objs[l].visible)) IN
      /\ ret.ok = shown.ok
      /\ ret.ok => ret.frame = shown.result

\* a composite of a visible layer and an invisible one that is translucent, in add
\* mode and has effects
C17_Witness ==
  /\ ret.op = "composite" /\ ret.ok
  /\ layers = <<1, 2>> /\ objs[1].visible /\ ~objs[2].visible
  /\ objs[2].opacity = 128 /\ objs[2].blend_mode = "add" /\ objs[2].effects # <<>>
  /\ ret.frame[1].c = 60

\* the place of a step in the order the claim fixes
Rank(step) ==
  IF step[1] = "global" THEN 3 * (Len(layers) + 1) + step[2]
  ELSE 3 * step[2] + (CASE step[1] = "effects" -> 0
                         [] step[1] = "opacity" -> 1
                         [] OTHER -> 2)

Logged(step) == \E i \in 1..Len(ret.log) : ret.log[i] = step

\* C18: composite_layers() takes its steps in a fixed order: layer by layer from back
\* to front, for each layer its effects, then the opacity scaling (only when opacity
\* < 1.0), then the blend; the global effects come after the last layer, in
\* registration order.
C18_StepOrder ==
  ret.op = "composite" =>
    /\ \A i, j \in 1..Len(ret.log) : i < j => Rank(ret.log[i]) < Rank(ret.log[j])
    /\ ret.ok =>
         /\ \A k \in 1..Len(layers) :
              LET layer == objs[layers[k]] IN
                /\ Logged(<<"effects", k>>) <=> layer.visible
                /\ Logged(<<"opacity", k>>) <=> (layer.visible /\ layer.opacity < 256)
                /\ Logged(<<"blend", k>>) <=>
                     (layer.visible /\ layer.blend_mode \in {"normal", "add", "multiply"})
         /\ \A g \in 1..Len(global_effects) : Logged(<<"global", g>>)

\* a composite of two visible layers, one translucent with effects, and two global effects
C18_Witness ==
  /\ ret.op = "composite" /\ ret.ok
  /\ layers = <<1, 2>> /\ objs[1].visible /\ objs[2].visible
  /\ objs[2].opacity = 128 /\ objs[2].effects # <<>>
  /\ Len(global_effects) = 2
  /\ Len(ret.log) = 7

RECURSIVE LeftToRight(_, _)
\* the effects of a chain composed from left to right
LeftToRight(chain, img) ==
  IF chain = <<>> THEN img
  ELSE ApplyEffect(chain[Len(chain)],
                   LeftToRight(SubSeq(chain, 1, Len(chain) - 1), img))

\* C19: Layer.apply_effects() is a read: it returns the content with the effects
\* applied in list order, the content itself for an empty chain; it changes neither
\* the layer nor the layer list; and two calls in a row return equal bitmaps.
C19_ApplyEffectsPure ==
  /\ [](ret.op = "apply_effects" =>
          LET layer == objs[ret.arg] IN
            /\ ret.ok
            /\ ret.frame = LeftToRight(layer.effects, layer.content)
            /\ layer.effects = <<>> => ret.frame = layer.content)
  /\ [][ret'.op = "apply_effects" => (objs' = objs /\ layers' = layers)]_vars
  /\ [][(ret.op = "apply_effects" /\ ret'.op = "apply_effects" /\ ret'.arg = ret.arg)
          => ret'.frame = ret.frame]_vars

\* apply_effects() has returned for a chain whose order matters: boost then dim
C19_Witness ==
  /\ ret.op = "apply_effects" /\ ret.arg = 2
  /\ objs[2].effects = <<"boost", "dim">>
  /\ ret.frame[1].c = 127 /\ objs[2].content[1].c = 200

\* C20: a single fully opaque layer in normal mode, composited with opacity o over
\* the transparent canvas, gives an output alpha of o * 255, up to rounding, at every
\* pixel it covers.
C20_AlphaIsOpacity ==
  \A l \in LayerIds :
    (ret.op = "composite" /\ ret.ok /\ layers = <<l>>
       /\ objs[l].visible /\ objs[l].blend_mode = "normal"
       /\ \A i \in 1..Len(objs[l].content) : objs[l].content[i].a = 255)
    => \A i \in Covered(l) :
         /\ 256 * ret.frame[i].a - 255 * objs[l].opacity <= 256
         /\ 255 * objs[l].opacity - 256 * ret.frame[i].a <= 256

\* layer l lies partly or wholly outside the canvas
Outside(l) ==
  \/ objs[l].x < 0
  \/ objs[l].x + Len(objs[l].content) > DispW
  \/ Len(objs[l].content) # DispW

\* C21: a layer that lies partly or wholly outside the canvas is clipped silently:
\* composite_layers() raises no error and returns a frame of exactly the canvas size,
\* in each of the blend modes normal, add and multiply.
C21_ClippedSilently ==
  (/\ ret.op = "composite"
   /\ \A k \in 1..Len(layers) :
        objs[layers[k]].blend_mode \in {"normal", "add", "multiply"}
   /\ \E k \in 1..Len(layers) : objs[layers[k]].visible /\ Outside(layers[k]))
  => (ret.ok /\ Len(ret.frame) = DispW)

\* a render() whose matrix.SetImage raises, in the step that is being taken
SinkFailure(t) == Live(t) /\ thr'[t].st = "raised" /\ thr'[t].pc = "sink"

\* C22: a failure of the raster sink during render() does not stop the routine that
\* called render(): the routine keeps running and the scheduler stays Running.
C22_SinkFailureKeepsRoutine ==
  [][\A t \in Threads : SinkFailure(t) => (thr'[t].st = "live" /\ is_running')]_vars

\* the smallest integer >= a / b
Ceil(a, b) == (a + b - 1) \div b

\* scroll routine t has run a LEFT pass to its end: x has come to end_x or beyond
PassComplete(t) ==
  Live(t) /\ thr[t].kind = "scroll" /\ thr[t].pc = "inner" /\ thr[t].i <= -TextW

\* C23: one uncancelled LEFT pass of scroll_text with integer step s >= 1 renders
\* exactly ceil((W + T) / s) frames: the first at x = W, every frame s to the left
\* of the one before, all of them before x = -T.
C23_ScrollPassFrames ==
  \A t \in Threads :
    /\ (Live(t) /\ thr[t].kind = "scroll" /\ thr[t].pc = "render")
         => (thr[t].x = ScrollW - thr[t].f * thr[t].n /\ thr[t].x > -TextW)
    /\ PassComplete(t) => thr[t].f = Ceil(ScrollW + TextW, thr[t].n)

C23_Witness ==
  \E t \in Threads :
    /\ PassComplete(t) /\ thr[t].n > 1 /\ (ScrollW + TextW) % thr[t].n # 0
    /\ thr[t].f > 1 /\ thr[t].f = Ceil(ScrollW + TextW, thr[t].n)

\* the values x takes in a LEFT pass with the given step, from W down to -T
SteppingSequence(step) == {ScrollW - k * step : k \in 0..(ScrollW + TextW)}

\* the smallest value >= -T of the stepping sequence
SmallestReached(step) ==
  CHOOSE v \in SteppingSequence(step) :
    v >= -TextW /\ \A w \in SteppingSequence(step) : w >= -TextW => v <= w

Fading(t) == Live(t) /\ thr[t].kind = "fade" /\ thr[t].j > 0

\* C25: for every duration > 0 an uncancelled fade_transition interpolates over
\* N = duration * 30 steps: frame i is rendered with the to-layers at opacity
\* alpha = i / N and the from-layers at 1 - alpha, alpha never decreases, and the
\* routine completes with the from-layers at 0 and the to-layers at 1.
C25_FadeInterpolates ==
  [][\A t \in Threads : Fading(t) =>
       /\ thr'[t].st = "raised" => thr'[t].pc = "sink"
       /\ thr'[t].pc = "f_render" =>
            /\ thr'[t].to.num * thr[t].j * 30 = thr'[t].i * 60 * thr'[t].to.den
            /\ thr'[t].from = Complement(thr'[t].to)
            /\ thr'[t].to.num * thr[t].to.den >= thr[t].to.num * thr'[t].to.den
                  \/ thr[t].i = 0
       /\ (thr'[t].st = "done" /\ thr'[t].pc = "exhausted") =>
            (thr[t].to.num = thr[t].to.den /\ thr[t].from.num = 0)]_vars

\* slideshow routine t has shown a slide and holds it (line 627)
Holding(t) ==
  Live(t) /\ thr[t].kind = "slideshow" /\ thr[t].pc = "s_for" /\ thr[t].i >= 1

C27_PoolKept ==
  [][\A t \in Threads :
       (Live(t) /\ thr[t].kind = "particles" /\ thr[t].pc = "p_init" /\ thr[t].n > 0)
         => thr'[t].st = "live"]_vars

\* the opacity o lies in [0, 1]
UnitInterval(o) == o.den > 0 /\ 0 <= o.num /\ o.num <= o.den

\* C28: every opacity that fade_transition, the slideshow cross-fade and pulse_effect
\* (with 0 <= min_opacity <= max_opacity <= 1) assign stays in [0, 1].
C28_OpacityInUnitInterval ==
  \A t \in Threads :
    (Live(t) /\ thr[t].kind \in {"fade", "slideshow", "pulse"})
      => (UnitInterval(thr[t].to) /\ UnitInterval(thr[t].from))

\* a routine has rendered with an opacity it assigned: a fade with its last alpha,
\* a cross-fade with its last 1 - alpha, a pulse with an opacity strictly inside
C28_Witness ==
  \E t \in Threads :
    /\ Live(t) /\ thr[t].pc \in {"f_check", "s_assign", "pu_top"}
    /\ thr[t].chk = FALSE
    /\ \/ thr[t].kind = "fade" /\ thr[t].to = FadeAlpha(FadeSteps, FadeSteps)
       \/ thr[t].kind = "slideshow" /\ thr[t].from = Complement(FadeAlpha(SlideFadeSteps, SlideFadeSteps))
       \/ thr[t].kind = "pulse" /\ 0 < thr[t].to.num /\ thr[t].to.num < thr[t].to.den

\* colours a and b differ by at most tol in every band
Within(a, b, tol) == \A k \in 1..3 : a[k] - b[k] <= tol /\ b[k] - a[k] <= tol

\* C29: a hue shift by h followed by a hue shift by -h mod 1.0 returns the original
\* colour within rounding tolerance (one 8-bit step in each band), for every 8-bit
\* colour, and the calls do not change the input image.
C29_HueRoundTrip ==
  [][/\ ret'.op = "hue_back" => Within(ret'.frame[1], objs[2].content[1], 1)
     /\ ret'.op \in {"hue", "hue_back"} => objs' = objs]_vars

\* no request is being handled and every display thread has run to its end
Quiescent ==
  /\ \A c \in Ctls : ctl[c].pc = "idle"
  /\ \A r \in Threads : thr[r].st \in {"none", "done"}

\* C30: after any sequence of /api/start/<app> and /api/stop requests, concurrent
\* ones included, at most one ticker has running = True, it is the one that
\* current_display refers to, and every ticker started before it has been stopped.
C30_OneCurrentDisplay ==
  Quiescent =>
    /\ Cardinality({r \in Threads : running[r]}) <= 1
    /\ \A r \in Threads : running[r] => current_display = r

\* C31: whenever the routine submitted by the latest scroll_text is about to render a
\* frame, the text layer it moves is in the compositor's layer list, also when
\* scroll_text was called while a fire_effect or particle_system was running.
C31_ScrollLayerListed ==
  \A t \in Threads :
    (Live(t) /\ thr[t].kind = "scroll" /\ animation_thread = t /\ thr[t].pc = "render")
    => InList(layers, t)

\* display thread r evaluates current_display.start() in the step that is being taken
CallsStart(r) == Live(r) /\ thr[r].pc = "d_read" /\ thr'[r] # thr[r]

\* C32: the display thread spawned by a start request calls start() on the ticker
\* created by that same request (ticker r for thread r), never on the ticker of
\* another request and never on None; each thread makes the call once, so no ticker
\* has start() invoked twice.
C32_StartsOwnTicker ==
  [][\A r \in Threads : CallsStart(r) => (thr'[r].pc = "d_set" /\ thr'[r].i = r)]_vars

\* thread t, which runs display_loop, performs its clear(), add_layer() or render()
\* in the step that is being taken
LoopWrites(t) ==
  /\ Live(t) /\ thr[t].kind = "static"
  /\ thr[t].pc \in {"sd_clear", "sd_add", "sd_render"}
  /\ thr'[t] # thr[t]

\* C33: once MTADisplay.stop() has returned for a display started with
\* start_static_display, the display_loop thread performs no clear, add_layer or
\* render on the shared display, and the layer list stays empty.
C33_QuietAfterStop ==
  [][Returned("stopclear") =>
       (layers' = <<>> /\ \A t \in Threads : ~LoopWrites(t))]_vars

\* C34: composite_layers() is read-only: it leaves the layer list, every attribute of
\* every Layer (content, position, opacity, visibility, blend mode, effect chain),
\* the canvas and global_effects as they are, and a composite that follows a
\* composite with no mutation in between returns the same frame.
C34_CompositeReadOnly ==
  [][ret'.op = "composite" =>
       /\ layers' = layers /\ objs' = objs
       /\ global_effects' = global_effects /\ canvas' = canvas
       /\ ret.op = "composite" => (ret'.ok = ret.ok /\ ret'.frame = ret.frame)]_vars

\* a composite that has scaled the alpha of a translucent layer without effects and
\* blended it
C34_Witness ==
  /\ ret.op = "composite" /\ ret.ok
  /\ \E k \in 1..Len(layers) :
       /\ 0 < objs[layers[k]].opacity /\ objs[layers[k]].opacity < 256
       /\ objs[layers[k]].effects = <<>>
       /\ Logged(<<"opacity", k>>) /\ Logged(<<"blend", k>>)

\* the number of blend branches that composite_layers() has run for the layer at index k
Blends(k) == Cardinality({i \in 1..Len(ret.log) : ret.log[i] = <<"blend", k>>})

\* C35: composite_layers() blends every visible layer by exactly one of its blend
\* branches, whatever the layer's blend_mode (normal, additive, multiply), and a
\* visible layer with non-zero alpha and opacity that is alone in the list shows in
\* the frame.
C35_EveryVisibleLayerBlended ==
  (ret.op = "composite" /\ ret.ok) =>
    /\ \A k \in 1..Len(layers) : objs[layers[k]].visible => Blends(k) = 1
    /\ (Len(layers) = 1 /\ objs[layers[1]].visible /\ objs[layers[1]].opacity > 0)
         => \E i \in 1..DispW : ret.frame[i].a > 0

\* the same for the lists whose layers all have a blend_mode that lines 178-183 test
KnownModesBlended ==
  (ret.op = "composite" /\ ret.ok
     /\ \A k \in 1..Len(layers) : objs[layers[k]].blend_mode \in {"normal", "add", "multiply"})
  => C35_EveryVisibleLayerBlended

\* routine t, which builds one layer per frame, is at its render() call
FrameBuilt(t) ==
  /\ Live(t)
  /\ \/ thr[t].kind = "gif" /\ thr[t].pc = "g_render"
     \/ thr[t].kind = "fire" /\ thr[t].pc = "fire_render"
     \/ thr[t].kind = "particles" /\ thr[t].pc = "p_render"

\* C36: in animate_gif, fire_effect and particle_system, with the routine as the only
\* writer, the layer list holds exactly one layer, the one the routine has just added,
\* at every render() call of the routine, for any number of frames.
C36_OneLayerPerFrame ==
  \A t \in Threads : FrameBuilt(t) => layers = <<t>>

\* animate_gif is about to render the last frame of the GIF, after the frames before it
C36_Witness ==
  \E t \in Threads :
    /\ FrameBuilt(t) /\ thr[t].kind = "gif"
    /\ thr[t].i = NumFrames - 1 /\ thr[t].i > 0
    /\ Len(layers) = 1

\* routine t of matrix_rain_effect is at position pc
Raining(t, pc) == Live(t) /\ thr[t].kind = "rain" /\ thr[t].pc = pc

\* C37: in matrix_rain_effect, started on a list of at most RainLimit (100) layers and
\* with no other writer, the list has at most RainLimit layers at the end of every
\* frame iteration and at most RainLimit + 1 + columns at every render() call.
C37_RainListBounded ==
  \A t \in Threads :
    /\ Raining(t, "r_top") => Len(layers) <= RainLimit
    /\ Raining(t, "r_render") => Len(layers) <= RainLimit + 1 + RainColumns

\* a render() at which the list has reached the bound: every column has added a
\* character to a list that the iteration found full
C37_Witness ==
  \E t \in Threads :
    Raining(t, "r_render") /\ Len(layers) = RainLimit + 1 + RainColumns

\* the set of the items of a list
Items(s) == {s[k] : k \in 1..Len(s)}

\* C38: after each collectData() call of the legacy MTARGBMatrix, uptown_trains and
\* downtown_trains hold only the arrivals which that call found, and uptownString and
\* downtownString list the soonest (up to ListShown, 4 in the code) of them: the
\* arrivals of earlier calls do not accumulate.
C38_LatestFetchOnly ==
  mta.pc = "show" =>
    /\ Items(mta.uptown_trains) = Infos(mta.found, "N", mta.now)
    /\ Items(mta.downtown_trains) = Infos(mta.found, "S", mta.now)
    /\ mta.uptownString = Listed(SortedList(AppendAll(<<>>, Infos(mta.found, "N", mta.now))))
    /\ mta.downtownString = Listed(SortedList(AppendAll(<<>>, Infos(mta.found, "S", mta.now))))

====
